---- MODULE Spec2Model ----
(***************************************************************************)
(* A state-machine model of the ISO 9660 image writer: the staging calls   *)
(* (AddFile, AddBootEntry), the layout planner (processAll) and the stream *)
(* emitter (WriteTo).                                                      *)
(*                                                                         *)
(* Strings are sequences of byte codes ("A;1" is <<65, 59, 49>>), a path   *)
(* is a sequence of strings.  A byte count that may reach 2^32 is kept as  *)
(* a record [q, r] standing for q * 2048 + r with r < 2048.                *)
(***************************************************************************)
EXTENDS Integers, Sequences, FiniteSets, TLC

(***************************************************************************)
(* Bounds of the explored input space.                                     *)
(***************************************************************************)
\* number of long-named files the bulk caller stages in one directory
NBulk == 61
\* most staging calls the small caller issues before WriteTo
MaxCalls == 3
\* most sink writes that return an error in one emission
MaxFaults == 1

(***************************************************************************)
(* Program constants.                                                      *)
(***************************************************************************)
sectorSize == 2048
primaryVolumeDirectoryIdentifierMaxLength == 31
primaryVolumeFileIdentifierMaxLength == 30
\* math.MaxUint32 = 2097151 * 2048 + 2047
MaxUint32Q == 2097151

(***************************************************************************)
(* Strings.                                                                *)
(***************************************************************************)
\* strings.ToUpper on one byte
ToUpperByte(c) == IF c >= 97 /\ c <= 122 THEN c - 32 ELSE c

ToUpper(s) == [k \in 1..Len(s) |-> ToUpperByte(s[k])]

\* dCharacters: A-Z, 0-9 and _
IsDChar(c) == \/ (c >= 65 /\ c <= 90)
              \/ (c >= 48 /\ c <= 57)
              \/ c = 95

\* Go's string comparison a < b: byte-wise lexicographic
RECURSIVE StrLessFrom(_, _, _)
StrLessFrom(a, b, k) ==
    IF k > Len(b) THEN FALSE
    ELSE IF k > Len(a) THEN TRUE
    ELSE IF a[k] < b[k] THEN TRUE
    ELSE IF a[k] > b[k] THEN FALSE
    ELSE StrLessFrom(a, b, k + 1)

StrLess(a, b) == StrLessFrom(a, b, 1)

\* strings.Split(s, sep) for a one-byte separator
RECURSIVE SplitFrom(_, _, _, _)
SplitFrom(s, sep, k, cur) ==
    IF k > Len(s) THEN <<cur>>
    ELSE IF s[k] = sep THEN <<cur>> \o SplitFrom(s, sep, k + 1, <<>>)
    ELSE SplitFrom(s, sep, k + 1, Append(cur, s[k]))

Split(s, sep) == SplitFrom(s, sep, 1, <<>>)

\* strings.Join(parts, sep) for a one-byte separator
RECURSIVE Join(_, _)
Join(parts, sep) ==
    IF Len(parts) = 0 THEN <<>>
    ELSE IF Len(parts) = 1 THEN parts[1]
    ELSE parts[1] \o <<sep>> \o Join(Tail(parts), sep)

(***************************************************************************)
(* Identifier mangling (mangle.go).                                        *)
(***************************************************************************)
Min2(a, b) == IF a < b THEN a ELSE b

mangleDString(input, maxCharacters) ==
    LET up == ToUpper(input)
        n  == IF maxCharacters < 0 THEN 0 ELSE Min2(Len(up), maxCharacters)
    IN  [k \in 1..n |-> IF IsDChar(up[k]) THEN up[k] ELSE 95]

\* a directory name that is only put in upper case and cut
mangleDirectoryNameUpper(input) ==
    SubSeq(ToUpper(input), 1,
           Min2(Len(input), primaryVolumeDirectoryIdentifierMaxLength))

mangleDirectoryName(input) ==
    mangleDString(input, primaryVolumeDirectoryIdentifierMaxLength)

mangleFileName(input) ==
    LET up        == ToUpper(input)
        split     == Split(up, 46)
        version   == <<49>>
        filename0 == IF Len(split) = 1 THEN split[1]
                     ELSE Join(SubSeq(split, 1, Len(split) - 1), 95)
        ext0      == IF Len(split) = 1 THEN <<>> ELSE split[Len(split)]
        extension == mangleDString(ext0, 8)
        maxRem    == (primaryVolumeFileIdentifierMaxLength - (1 + Len(version)))
                     - (IF Len(extension) > 0 THEN 1 + Len(extension) ELSE 0)
        filename  == mangleDString(filename0, maxRem)
    IN  IF Len(extension) > 0
        THEN filename \o <<46>> \o extension \o <<59>> \o version
        ELSE filename \o <<59>> \o version

\* splitPath: the non-empty segments
splitPath(segs) == SelectSeq(segs, LAMBDA s : Len(s) > 0)

\* manglePath on the "/"-split of the cleaned input path: the directory
\* segments and the file name
manglePath(input) ==
    LET ne  == splitPath(input)
        dir == [k \in 1..(Len(ne) - 1) |-> mangleDirectoryName(ne[k])]
    IN  [dir |-> dir, name |-> mangleFileName(ne[Len(ne)])]

\* strings.Split(path.Join(dirSegments...), "/"): the joined path of no
\* segment is "", which splits into one empty segment
SplitJoined(dirSegments) ==
    IF Len(dirSegments) = 0 THEN << <<>> >> ELSE dirSegments

(***************************************************************************)
(* Byte counts and sector counts.                                          *)
(***************************************************************************)
SzOf(n) == [q |-> n \div sectorSize, r |-> n % sectorSize]

\* the sectors() of every file handler (item.go): the size divided by the
\* sector size, rounded up.  Sizes in the explored space stay below 2^33,
\* so the uint32 conversion never wraps.
sectorsOfSize(siz) == IF siz.r = 0 THEN siz.q ELSE siz.q + 1

\* a limit of 2^32 - 2 bytes
SizeTooLargeFromMax(siz) == siz.q > MaxUint32Q \/ (siz.q = MaxUint32Q /\ siz.r = 2047)

\* cV.Size() > int64(math.MaxUint32)
SizeTooLarge(siz) == siz.q > MaxUint32Q

(***************************************************************************)
(* Directory records.  MarshalBinary is not among the source files; the    *)
(* length of a serialized record is the documented                         *)
(* 33 + len(identifier) + ((len(identifier) + 1) mod 2).                   *)
(***************************************************************************)
NilDE == [nil |-> TRUE, ExtentLocation |-> 0, ExtentLength |-> SzOf(0),
          FileFlags |-> 0, Identifier |-> <<>>]

dirFlagDir == 2

MarshalBinaryLen(de) ==
    33 + Len(de.Identifier) + ((Len(de.Identifier) + 1) % 2)

(***************************************************************************)
(* Items.  A node names an Item of the tree: the directory at path p, or   *)
(* the file handler object i.                                              *)
(***************************************************************************)
DirNode(p)  == [dir |-> TRUE,  p |-> p,    i |-> 0]
FileNode(i) == [dir |-> FALSE, p |-> <<>>, i |-> i]

\* itemMeta's zero value
ZeroMeta == [dirPath |-> <<>>, ownEntry |-> NilDE, parentEntry |-> NilDE,
             targetSector |-> 0]

EmptyMap == [x \in {} |-> 0]

MapPut(f, k, v) == [x \in (DOMAIN f) \cup {k} |-> IF x = k THEN v ELSE f[x]]

\* newDir(): no children, an empty buffer (recs: the records written, each
\* with its offset; len: bytes written; rd: bytes already read)
newDir == [children |-> EmptyMap,
           buf      |-> [recs |-> <<>>, len |-> 0, rd |-> 0],
           m        |-> ZeroMeta]

\* NewItemReader on a *bytes.Reader of the given size: a readerHndlr.
\* left is Reader.Len(), the unread bytes; closed counts the Close calls;
\* stored tells whether the tree holds the object the staging call was
\* handed or a handler the call made around or from it; reads names the
\* array the handler's reader delivers: bytes of its own, or the array of
\* bootCat
NewReaderHndlr(siz) ==
    [kind |-> "reader", size |-> siz, left |-> siz, closed |-> 0,
     stored |-> "wrapped", reads |-> "own", m |-> ZeroMeta]

\* the filepathHndlr NewItemFile returns for a file of the given size: size
\* is st.Size(), taken at the stat; held is whether it has its file open (f
\* is not nil); left is what the next Read has ahead: the whole file when
\* none is open, for Read opens the file anew
NewFilepathHndlr(siz) ==
    [kind |-> "filepath", size |-> siz, left |-> siz, closed |-> 0,
     stored |-> "as given", reads |-> "own", held |-> FALSE, m |-> ZeroMeta]

(***************************************************************************)
(* The callers.  The small caller issues at most MaxCalls staging calls    *)
(* with short paths and five reader objects; the bulk caller stages        *)
(* NBulk files with 28-character names and then two with one-character     *)
(* names, all in one directory, in descending order of name.               *)
(***************************************************************************)
\* "a", "p/x/f", "q/g", "p/h" split at "/"
SmallPaths == { << <<97>> >>,
                << <<112>>, <<120>>, <<102>> >>,
                << <<113>>, <<103>> >>,
                << <<112>>, <<104>> >> }

\* paths whose components look like stored names: "p/a", "p/a;1/f",
\* "p/a_1", "p/x.y/f"; they are staged where the names of the tree are
\* looked at on their own
NamePaths == { << <<112>>, <<97>> >>,
               << <<112>>, <<97, 59, 49>>, <<102>> >>,
               << <<112>>, <<97, 95, 49>> >>,
               << <<112>>, <<120, 46, 121>>, <<102>> >> }

\* the small caller's readers: 2 is an Item the caller made with
\* NewItemReader, the others are *bytes.Reader values; 4 holds 2^32 bytes
\* and 5 holds 2^32 - 1
SmallObjects == {1, 2, 3, 4, 5}

\* an Item of 2^25 + 1 bytes, which are 65537 blocks of 512 bytes; it is
\* staged where the catalog encoder is looked at on its own
LargeItems == {6}

\* an io.Reader of no known type whose Read returns an error: NewItemReader
\* copies such a reader and returns the error; it is handed over where the
\* staging calls are looked at on their own
FailingReaders == {7}

\* Items at the edges of the sizes a boot file can have: none, 1024,
\* 65535 * 512 and 2^32 - 1 bytes; they are staged where the catalog encoder
\* is looked at on its own
EdgeItems == {8, 9, 10, 11}

ObjIsItem(o) == o \in {2} \cup LargeItems \cup EdgeItems

ObjSize(o) == CASE o = 1 -> SzOf(3)
                [] o = 2 -> SzOf(2049)
                [] o = 3 -> SzOf(0)
                [] o = 4 -> [q |-> MaxUint32Q + 1, r |-> 0]
                [] o = 5 -> [q |-> MaxUint32Q, r |-> 2047]
                [] o = 6 -> [q |-> 16384, r |-> 1]
                [] o = 8 -> SzOf(0)
                [] o = 9 -> SzOf(1024)
                [] o = 10 -> [q |-> 16383, r |-> 1536]
                [] o = 11 -> [q |-> MaxUint32Q, r |-> 2047]
                [] OTHER -> SzOf(1)

\* "BOOT.CAT", the default of iw.Catalog, and "C.ABCDEFGH;1"
DefaultCatalog == << <<66, 79, 79, 84, 46, 67, 65, 84>> >>

CatalogPaths == { DefaultCatalog,
                  << <<67, 46, 65, 66, 67, 68, 69, 70, 71, 72, 59, 49>> >> }

\* the bufHndlr WriteTo stages as the boot catalog
CatalogObject == 50

\* platform ids of the boot entries: x86 and EFI
BootPlatforms == {0, 239}

\* the local paths the local caller names: a file of 2049 bytes, a
\* directory, and a path with nothing at it
LocalPaths == {"/l/f.bin", "/l", "/l/none"}

\* os.Stat(filename), as NewItemFile looks at it
statOf(filename) ==
    CASE filename = "/l/f.bin" -> [err |-> "nil", IsDir |-> FALSE, Size |-> SzOf(2049)]
      [] filename = "/l"       -> [err |-> "nil", IsDir |-> TRUE, Size |-> SzOf(0)]
      [] OTHER                 -> [err |-> "stat", IsDir |-> FALSE, Size |-> SzOf(0)]

\* NewItemFile(filename): the error of the stat, ErrIsDir for a directory,
\* or a filepathHndlr with the size the stat gave
NewItemFile(filename) ==
    LET st == statOf(filename)
    IN  IF st.err # "nil" THEN [err |-> st.err, h |-> NewFilepathHndlr(SzOf(0))]
        ELSE IF st.IsDir THEN [err |-> "ErrIsDir", h |-> NewFilepathHndlr(SzOf(0))]
        ELSE [err |-> "nil", h |-> NewFilepathHndlr(st.Size)]

\* the handler object the k-th call of the local caller makes: NewItemFile
\* returns a new one each time
LocalObject(k) == 200 + k

\* the k-th path of the bulk caller
BulkPath(k) ==
    IF k <= NBulk
    THEN LET j == NBulk - k
         IN  << <<97 + (j \div 26), 97 + (j % 26)>> \o [x \in 1..26 |-> 102] >>
    ELSE << <<48 + (k - NBulk)>> >>

\* the reader object of the bulk caller's k-th call: a fresh one-byte
\* *bytes.Reader
BulkObject(k) == 100 + k

(***************************************************************************)
(* State.                                                                  *)
(***************************************************************************)
VARIABLES
    caller,            \* "small", "bulk" or "local": the staging script being run
    calls,             \* staging calls issued so far
    faults,            \* sink writes that have returned an error
    dirs,              \* path -> itemDir (children, buf, m); <<>> is iw.root
    item,              \* object id -> file handler (with its itemMeta m)
    boot,              \* iw.boot
    lookupTable,       \* iw.lookupTable: joined path -> object id
    ret,               \* what the last call returned
    pc,                \* where WriteTo stands
    vd,                \* WriteTo's descriptor list
    VolumeSpaceSize,   \* iw.Primary.VolumeSpaceSize
    freeSectorPointer, \* wc.freeSectorPointer
    itemsToWrite,      \* wc.itemsToWrite, the planner's fifo
    items,             \* wc.items, the emission list
    writeSecPos,       \* wc.writeSecPos
    idx,               \* the index of the emission loop WriteTo is in
    Catalog,           \* iw.Catalog, split at "/"
    BootSystemUse,     \* boot.BootSystemUse[0..4], the four bytes
    bootCat,           \* WriteTo's bootCat, the buffer the catalog file reads:
                       \* the bytes copied to its front, the rest is zero
    sink,              \* bytes the sink has accepted, as [q, r]
    allocLog,          \* history: the allocSectors calls, in order
    closeLog,          \* history: the nodes WriteTo has called Close on, in order
    hndlr,             \* a Content Source looked at on its own (see below)
    writeLog           \* history: the regions handed to the sink, in order,
                       \* each with the bytes handed over (padding included)
                       \* and, for the catalog file, the front of its bytes

staging == <<dirs, item, boot, lookupTable>>
context == <<vd, VolumeSpaceSize, freeSectorPointer, itemsToWrite, items,
             writeSecPos, idx, Catalog, BootSystemUse, bootCat, closeLog,
             hndlr>>
vars == <<caller, calls, faults, dirs, item, boot, lookupTable, ret, pc, vd,
          VolumeSpaceSize, freeSectorPointer, itemsToWrite, items,
          writeSecPos, idx, Catalog, BootSystemUse, bootCat, closeLog, hndlr,
          sink, allocLog,
          writeLog>>

\* no Content Source is looked at on its own
NoSource ==
    [kind |-> "none", from |-> "none", d |-> <<>>, orig |-> <<>>,
     BootInfoTable |-> FALSE, pos |-> 0, held |-> FALSE, last |-> "none",
     opens |-> 0, released |-> 0, closes |-> 0, err |-> "nil",
     targetSector |-> 0, stage |-> "none", items |-> <<>>,
     touched |-> FALSE]

\* the state NewWriter returns, before WriteTo has been called
Init ==
    /\ caller \in {"small", "bulk", "local"}
    /\ calls = 0
    /\ faults = 0
    /\ dirs = [p \in { <<>> } |-> newDir]
    /\ item = EmptyMap
    /\ boot = <<>>
    /\ lookupTable = EmptyMap
    /\ ret = "nil"
    /\ pc = "idle"
    /\ vd = <<"primary">>
    /\ VolumeSpaceSize = 0
    /\ freeSectorPointer = 0
    /\ itemsToWrite = <<>>
    /\ items = <<>>
    /\ writeSecPos = 0
    /\ idx = 0
    /\ Catalog = DefaultCatalog
    /\ BootSystemUse = <<0, 0, 0, 0>>
    /\ bootCat = <<>>
    /\ closeLog = <<>>
    /\ hndlr = NoSource
    /\ sink = SzOf(0)
    /\ allocLog = <<>>
    /\ writeLog = <<>>

(***************************************************************************)
(* Staging (part_002, lines 93-183).                                       *)
(***************************************************************************)
\* a getDir that makes a directory in the place of a file it meets
RECURSIVE getDirOverFileFrom(_, _, _, _)
getDirOverFileFrom(ds, pos, segs, k) ==
    IF k > Len(segs) THEN [dirs |-> ds, pos |-> pos, err |-> "nil"]
    ELSE IF segs[k] \in DOMAIN ds[pos].children /\ ds[pos].children[segs[k]].dir
         THEN getDirOverFileFrom(ds, ds[pos].children[segs[k]].p, segs, k + 1)
         ELSE LET np == Append(pos, segs[k])
              IN  getDirOverFileFrom(
                    MapPut([ds EXCEPT ![pos].children =
                                          MapPut(@, segs[k], DirNode(np))],
                           np, newDir),
                    np, segs, k + 1)

getDirOverFile(ds, directoryPath) == getDirOverFileFrom(ds, <<>>, directoryPath, 1)

\* getDir: walk the segments from pos, creating the directories that are
\* missing; a segment that names a file ends the walk with ErrIsDir
RECURSIVE getDirFrom(_, _, _, _)
getDirFrom(ds, pos, segs, k) ==
    IF k > Len(segs) THEN [dirs |-> ds, pos |-> pos, err |-> "nil"]
    ELSE IF segs[k] \in DOMAIN ds[pos].children
         THEN IF ds[pos].children[segs[k]].dir
              THEN getDirFrom(ds, ds[pos].children[segs[k]].p, segs, k + 1)
              ELSE [dirs |-> ds, pos |-> pos, err |-> "ErrIsDir"]
         ELSE LET np == Append(pos, segs[k])
              IN  getDirFrom(
                    MapPut([ds EXCEPT ![pos].children =
                                          MapPut(@, segs[k], DirNode(np))],
                           np, newDir),
                    np, segs, k + 1)

getDir(ds, directoryPath) == getDirFrom(ds, <<>>, directoryPath, 1)

\* the Item o as it is when it is handed to its first staging call: a
\* handler over a bytes.Reader, that of the catalog over the array of
\* bootCat (&bufHndlr{Reader: bytes.NewReader(bootCat)})
ItemObject(o, siz) ==
    [NewReaderHndlr(siz) EXCEPT !.stored = "as given",
                                !.reads = IF o = CatalogObject THEN "bootCat"
                                          ELSE "own"]

\* a NewItemReader that takes an Item for a reader of no known type: it
\* copies what the reader delivers into a buffer and returns a readerHndlr
\* over the copy
NewItemReaderCopying(its, o, siz, isItem) == MapPut(its, o, NewReaderHndlr(siz))

\* NewItemReader: an Item is returned as it is (an Item staged before is the
\* object the tree has already), a *bytes.Reader is wrapped in a new
\* readerHndlr
NewItemReader(its, o, siz, isItem) ==
    IF isItem
    THEN IF o \in DOMAIN its THEN its ELSE MapPut(its, o, ItemObject(o, siz))
    ELSE MapPut(its, o, NewReaderHndlr(siz))

\* a staging that puts the new file in the place of the one that is there
stageAtReplacing(ds, its, lt, o, siz, isItem, directoryPath, fileName) ==
    LET found   == getDir(ds, SplitJoined(directoryPath))
        dirPath == directoryPath \o <<fileName>>
        its1    == NewItemReader(its, o, siz, isItem)
    IN  IF found.err # "nil"
        THEN [dirs |-> found.dirs, item |-> its, lookupTable |-> lt,
              err |-> found.err]
        ELSE [dirs |-> [found.dirs EXCEPT ![found.pos].children =
                                       MapPut(@, fileName, FileNode(o))],
              item |-> [its1 EXCEPT ![o].m.dirPath = dirPath],
              lookupTable |-> MapPut(lt, dirPath, o),
              err |-> "nil"]

\* AddFile and AddBootEntry after manglePath and up to the boot record
\* (part_002, lines 151-170): the tree, the handlers and the lookup table
\* after the call, and what it returns
stageAt(ds, its, lt, o, siz, isItem, directoryPath, fileName) ==
    LET found   == getDir(ds, SplitJoined(directoryPath))
        dirPath == directoryPath \o <<fileName>>
        its1    == NewItemReader(its, o, siz, isItem)
    IN  IF found.err # "nil"
        THEN [dirs |-> found.dirs, item |-> its, lookupTable |-> lt,
              err |-> found.err]
        ELSE IF fileName \in DOMAIN found.dirs[found.pos].children
        THEN [dirs |-> found.dirs, item |-> its, lookupTable |-> lt,
              err |-> "ErrExist"]
        ELSE IF o \in FailingReaders
        THEN [dirs |-> found.dirs, item |-> its, lookupTable |-> lt,
              err |-> "io"]
        ELSE [dirs |-> [found.dirs EXCEPT ![found.pos].children =
                                       MapPut(@, fileName, FileNode(o))],
              item |-> [its1 EXCEPT ![o].m.dirPath = dirPath],
              lookupTable |-> MapPut(lt, dirPath, o),
              err |-> "nil"]

\* AddFile and AddBootEntry up to the boot record: manglePath, then the
\* staging at the mangled place
stageFile(ds, its, lt, o, siz, isItem, filePath) ==
    stageAt(ds, its, lt, o, siz, isItem,
            manglePath(filePath).dir, manglePath(filePath).name)

\* what the caller may pass next
CallAllowed(o, filePath) ==
    /\ pc = "idle"
    /\ IF caller = "small"
       THEN /\ calls < MaxCalls
            /\ o \in SmallObjects \cup LargeItems \cup EdgeItems \cup FailingReaders
            /\ filePath \in SmallPaths \cup NamePaths
            /\ (o \in DOMAIN item => ObjIsItem(o))
       ELSE /\ caller = "bulk"
            /\ calls < NBulk + 2
            /\ o = BulkObject(calls + 1)
            /\ filePath = BulkPath(calls + 1)

AddFile(o, filePath) ==
    /\ CallAllowed(o, filePath)
    /\ LET r == stageFile(dirs, item, lookupTable, o, ObjSize(o), ObjIsItem(o),
                          filePath)
       IN  /\ dirs' = r.dirs
           /\ item' = r.item
           /\ lookupTable' = r.lookupTable
           /\ ret' = r.err
    /\ calls' = calls + 1
    /\ UNCHANGED <<caller, faults, boot, pc, sink, allocLog, writeLog>>
    /\ UNCHANGED context

AddBootEntry(platformId, bootMedia, filePath, o) ==
    /\ CallAllowed(o, filePath)
    /\ caller = "small"
    /\ ObjIsItem(o)
    /\ LET r == stageFile(dirs, item, lookupTable, o, ObjSize(o), TRUE, filePath)
       IN  /\ dirs' = r.dirs
           /\ item' = r.item
           /\ lookupTable' = r.lookupTable
           /\ ret' = r.err
           /\ boot' = IF r.err = "nil"
                      THEN Append(boot, [platformId |-> platformId,
                                         bootMedia |-> bootMedia, file |-> o])
                      ELSE boot
    /\ calls' = calls + 1
    /\ UNCHANGED <<caller, faults, pc, sink, allocLog, writeLog>>
    /\ UNCHANGED context

\* AddLocalFile (part_002, lines 176-183): NewItemFile on the local path,
\* its error wrapped and returned, else AddFile with the handler it made
AddLocalFile(localPath, filePath) ==
    /\ pc = "idle"
    /\ caller = "local"
    /\ calls < MaxCalls
    /\ localPath \in LocalPaths
    /\ filePath \in SmallPaths
    /\ LET buf == NewItemFile(localPath)
           o   == LocalObject(calls + 1)
           r   == stageFile(dirs, MapPut(item, o, buf.h), lookupTable, o,
                            buf.h.size, TRUE, filePath)
       IN  IF buf.err # "nil"
           THEN /\ ret' = (IF buf.err = "ErrIsDir"
                           THEN "unable to add local file: ErrIsDir"
                           ELSE "unable to add local file: stat")
                /\ UNCHANGED <<dirs, item, lookupTable>>
           ELSE /\ dirs' = r.dirs
                /\ item' = IF r.err = "nil" THEN r.item ELSE item
                /\ lookupTable' = r.lookupTable
                /\ ret' = r.err
    /\ calls' = calls + 1
    /\ UNCHANGED <<caller, faults, boot, pc, sink, allocLog, writeLog>>
    /\ UNCHANGED context

(***************************************************************************)
(* Sector counts of directories (itemDir.sectors).                         *)
(***************************************************************************)
\* entryLength of one child name
entryLength(name) == 33 + Len(name) + ((Len(name) + 1) % 2)

\* one turn of the loop of itemDir.sectors: st is the pair
\* <<sectors, currentSectorOccupied>>
sectorsStep(st, len) ==
    IF st[2] + len > sectorSize THEN <<st[1] + 1, len>>
    ELSE <<st[1], st[2] + len>>

\* The loop ranges over a Go map, whose iteration order is unspecified and
\* differs from call to call.  packAll gives every pair the loop can end in:
\* a search state is the multiset of entry lengths still to come (rem) and
\* the pair reached.
RECURSIVE packAll(_, _)
packAll(S, n) ==
    IF n = 0 THEN S
    ELSE LET S1 == UNION { { [rem |-> [s.rem EXCEPT ![len] = @ - 1],
                              st  |-> sectorsStep(s.st, len)]
                             : len \in {l \in DOMAIN s.rem : s.rem[l] > 0} }
                           : s \in S }
         IN  IF S1 = {} THEN S1 ELSE packAll(S1, n - 1)

\* a sectors() that does not count the self and parent records
sectorsOutcomesFromZero(names) ==
    LET lens == {entryLength(nm) : nm \in names}
        rem0 == [l \in lens |-> Cardinality({nm \in names : entryLength(nm) = l})]
        ends == packAll({[rem |-> rem0, st |-> <<0, 0>>]}, Cardinality(names))
    IN  { IF s.st[2] > 0 THEN s.st[1] + 1 ELSE s.st[1] : s \in ends }

\* every value d.sectors() can return for the set of child names
sectorsOutcomes(names) ==
    LET lens == {entryLength(nm) : nm \in names}
        rem0 == [l \in lens |-> Cardinality({nm \in names : entryLength(nm) = l})]
        ends == packAll({[rem |-> rem0, st |-> <<0, 68>>]}, Cardinality(names))
    IN  { IF s.st[2] > 0 THEN s.st[1] + 1 ELSE s.st[1] : s \in ends }

\* one value of sectors() for each directory of ds: the results of one round
\* of calls
sectorChoices(ds, paths) ==
    LET all == UNION {sectorsOutcomes(DOMAIN ds[p].children) : p \in paths}
    IN  { f \in [paths -> all] :
            \A p \in paths : f[p] \in sectorsOutcomes(DOMAIN ds[p].children) }

\* Size() of a file handler: a readerHndlr reports the bytes not yet read,
\* a filepathHndlr the size at the stat
Size(h) == IF h.kind = "filepath" THEN h.size ELSE h.left

sectors(h) == sectorsOfSize(Size(h))

RECURSIVE SumOver(_, _)
SumOver(S, f) ==
    IF S = {} THEN 0
    ELSE LET x == CHOOSE y \in S : TRUE IN f[x] + SumOver(S \ {x}, f)

\* recursiveDirSectorCount(iw.root), sc giving what each sectors() call on a
\* directory returned: every directory's own sectors plus the sectors of
\* every file child
recursiveDirSectorCount(ds, its, sc) ==
    LET fileSecs == [p \in DOMAIN ds |->
                       SumOver({nm \in DOMAIN ds[p].children :
                                    ~ds[p].children[nm].dir},
                               [nm \in DOMAIN ds[p].children |->
                                    IF ds[p].children[nm].dir THEN 0
                                    ELSE sectors(its[ds[p].children[nm].i])])]
    IN  SumOver(DOMAIN ds, [p \in DOMAIN ds |-> sc[p] + fileSecs[p]])

(***************************************************************************)
(* The layout planner (part_002, lines 213-389).                           *)
(***************************************************************************)
\* names in ascending byte order, as sort.Slice leaves them: the name at
\* place k has k - 1 names below it
sortNames(S) ==
    LET ranked == { <<Cardinality({y \in S : StrLess(y, x)}), x>> : x \in S }
    IN  [k \in 1..Cardinality(S) |->
            (CHOOSE pr \in ranked : pr[1] = k - 1)[2]]

\* buf.Write of one record
bufWrite(b, len, de) ==
    [b EXCEPT !.recs = Append(@, [off |-> b.len, len |-> len, de |-> de]),
              !.len  = @ + len]

\* buf.Write of n zero bytes
bufPad(b, n) == [b EXCEPT !.len = @ + n]

\* a cursor that moves on by one sector whatever was taken
allocOneSector(fsp, count) == fsp + 1

\* a cursor that never moves
allocNone(fsp, count) == fsp

\* allocSectors: the cursor after count sectors were taken (the sectors
\* start at the cursor as it was)
allocSectors(fsp, count) == fsp + count

\* a planner that takes the newest entry next: c goes right behind the
\* entry being processed
pushBehindFront(queue, c) ==
    IF queue = <<>> THEN <<c>> ELSE <<Head(queue), c>> \o Tail(queue)

\* wc.itemsToWrite.PushBack(c)
pushBack(queue, c) == Append(queue, c)

\* a set that takes the two records the other way round
metaSetSwapped(m, own, parent, targetSector) ==
    [m EXCEPT !.ownEntry = parent, !.parentEntry = own,
              !.targetSector = targetSector]

\* itemMeta.set
metaSet(m, own, parent, targetSector) ==
    [m EXCEPT !.ownEntry = own, !.parentEntry = parent,
              !.targetSector = targetSector]

\* the in-sector offset processDirectory keeps after it has written a child
\* record: bufPos is left as it was
bufPosAfterRecord(bufPos, len) == bufPos

\* One turn of processDirectory's loop over the sorted names, for the child
\* nm of directory d.  a holds the tree, the handlers, the cursor, the fifo,
\* the log of allocations, bufPos and the error that ended the loop.
processChild(a, d, nm, ownEntry, sc) ==
    LET c      == a.dirs[d].children[nm]
        siz    == IF c.dir THEN SzOf(0) ELSE Size(a.item[c.i])
        secs   == IF c.dir THEN sc[c.p] ELSE sectorsOfSize(siz)
        extLen == IF c.dir THEN [q |-> secs, r |-> 0] ELSE siz
        de     == [nil |-> FALSE, ExtentLocation |-> a.fsp,
                   ExtentLength |-> extLen,
                   FileFlags |-> IF c.dir THEN dirFlagDir ELSE 0,
                   Identifier |-> nm]
        len    == MarshalBinaryLen(de)
        b0     == a.dirs[d].buf
        over   == a.bufPos + len > sectorSize
        b1     == IF over /\ a.bufPos < sectorSize
                  THEN bufPad(b0, sectorSize - a.bufPos) ELSE b0
        pos1   == IF over THEN 0 ELSE a.bufPos
        ds1    == [a.dirs EXCEPT ![d].buf = bufWrite(b1, len, de)]
    IN  IF a.err # "nil" THEN a
        ELSE IF ~c.dir /\ SizeTooLarge(siz)
        THEN [a EXCEPT !.err = "ErrFileTooLarge"]
        ELSE [dirs   |-> IF c.dir
                         THEN [ds1 EXCEPT ![c.p].m = metaSet(@, de, ownEntry, a.fsp)]
                         ELSE ds1,
              item   |-> IF c.dir THEN a.item
                         ELSE [a.item EXCEPT ![c.i].m = metaSet(@, de, ownEntry, a.fsp)],
              fsp    |-> allocSectors(a.fsp, secs),
              queue  |-> pushBack(a.queue, c),
              log    |-> Append(a.log, [node |-> c, lba |-> a.fsp, count |-> secs]),
              bufPos |-> bufPosAfterRecord(pos1, len),
              err    |-> "nil"]

RECURSIVE processChildren(_, _, _, _, _, _)
processChildren(a, d, names, k, ownEntry, sc) ==
    IF k > Len(names) THEN a
    ELSE LET a1 == processChild(a, d, names[k], ownEntry, sc)
         IN  IF a1.err # "nil" THEN a1
             ELSE processChildren(a1, d, names, k + 1, ownEntry, sc)

\* the names in descending order
descendingOrder(names) ==
    [k \in 1..Cardinality(names) |->
        sortNames(names)[Cardinality(names) + 1 - k]]

\* the order in which processDirectory visits the children
childOrder(names) == sortNames(names)

\* processDirectory(dir, ownEntry, parentEntry, targetSector)
processDirectory(ds, its, fsp, queue, log, d, sc) ==
    LET ownEntry  == ds[d].m.ownEntry
        currentDE == [ownEntry EXCEPT !.Identifier = <<0>>]
        parentDE  == [ds[d].m.parentEntry EXCEPT !.Identifier = <<1>>]
        b1        == bufWrite(ds[d].buf, MarshalBinaryLen(currentDE), currentDE)
        b2        == bufWrite(b1, MarshalBinaryLen(parentDE), parentDE)
        a0        == [dirs |-> [ds EXCEPT ![d].buf = b2], item |-> its,
                      fsp |-> fsp, queue |-> queue, log |-> log,
                      bufPos |-> MarshalBinaryLen(currentDE)
                                 + MarshalBinaryLen(parentDE),
                      err |-> "nil"]
    IN  processChildren(a0, d, childOrder(DOMAIN ds[d].children), 1,
                        ownEntry, sc)

\* a processFile that puts the file at the head of the emission list
processFileFirst(its, lst, n) ==
    IF SizeTooLarge(Size(its[n.i]))
    THEN [err |-> "ErrFileTooLarge", items |-> lst]
    ELSE [err |-> "nil", items |-> <<n>> \o lst]

\* processFile(buf, targetSector)
processFile(its, lst, n) ==
    IF SizeTooLarge(Size(its[n.i]))
    THEN [err |-> "ErrFileTooLarge", items |-> lst]
    ELSE [err |-> "nil", items |-> Append(lst, n)]

\* the characters of the bytes 32..95, which the bytes of a mangled path
\* are among, and of the bytes 97..126
UpperChars ==
    <<" ", "!", "\"", "#", "$", "%", "&", "'", "(", ")", "*", "+", ",",
      "-", ".", "/", "0", "1", "2", "3", "4", "5", "6", "7", "8", "9", ":",
      ";", "<", "=", ">", "?", "@", "A", "B", "C", "D", "E", "F", "G", "H",
      "I", "J", "K", "L", "M", "N", "O", "P", "Q", "R", "S", "T", "U", "V",
      "W", "X", "Y", "Z", "[", "\\", "]", "^", "_">>

LowerChars ==
    <<"a", "b", "c", "d", "e", "f", "g", "h", "i", "j", "k", "l", "m", "n",
      "o", "p", "q", "r", "s", "t", "u", "v", "w", "x", "y", "z", "{", "|",
      "}", "~">>

\* a string of bytes as text
RECURSIVE TextOf(_)
TextOf(b) ==
    IF b = <<>> THEN ""
    ELSE (IF Head(b) >= 32 /\ Head(b) <= 95 THEN UpperChars[Head(b) - 31]
          ELSE IF Head(b) >= 97 /\ Head(b) <= 126 THEN LowerChars[Head(b) - 96]
          ELSE "?") \o TextOf(Tail(b))

\* err.Error(): the text of ErrFileTooLarge (line 28), any other error as
\* it is named here
errorText(err) ==
    IF err = "ErrFileTooLarge"
    THEN "file is exceeding the maximum file size of 4GB"
    ELSE err

\* what processAll returns when the turn for an item failed (line 382): a
\* new error with the item's dirPath and the text of the error, which it
\* does not wrap
processAllError(dirPath, err) ==
    "processing " \o TextOf(Join(dirPath, 47)) \o ": " \o errorText(err)

\* what WriteTo returns when processAll failed (line 498): a new error
\* with the text of processAll's
planningError(dirPath, err) ==
    "writing files: " \o processAllError(dirPath, err)

\* a WriteTo that goes on to the emission although processAll failed
afterPlanErrorGoOn(err) == IF Len(boot) > 0 THEN "patch" ELSE "zeros"

\* where WriteTo goes when processAll returned an error: it returns it
\* (lines 497-499)
afterPlanError(err) == "error"

\* a planner that stops after the directory it was handed first
afterFirst(queue) == IF Len(boot) > 0 THEN "patch" ELSE "zeros"

\* where WriteTo goes once the planner's fifo is empty
afterPlanning(queue) ==
    IF Len(queue) > 0 THEN "plan"
    ELSE IF Len(boot) > 0 THEN "patch" ELSE "zeros"

(***************************************************************************)
(* WriteTo, lines 444-499, and processAll up to its loop: the catalog is   *)
(* staged when there are boot entries, the descriptor list is completed,   *)
(* the volume space size is computed and the root extent is allocated.     *)
(***************************************************************************)
\* a descriptor list with the boot record after the terminator
descriptorListBootLast(v, hasBoot) ==
    (v \o <<"terminator">>) \o (IF hasBoot THEN <<"boot">> ELSE <<>>)

\* iw.vd with the boot record appended when there are boot entries, and
\* then the terminator
descriptorList(v, hasBoot) ==
    (v \o (IF hasBoot THEN <<"boot">> ELSE <<>>)) \o <<"terminator">>

WriteTo(catalog) ==
    /\ pc = "idle"
    /\ catalog \in (IF Len(boot) > 0 THEN CatalogPaths ELSE {DefaultCatalog})
    /\ Catalog' = catalog
    /\ LET r == IF Len(boot) > 0
                THEN stageFile(dirs, item, lookupTable, CatalogObject,
                               SzOf(2048), TRUE, catalog)
                ELSE [dirs |-> dirs, item |-> item,
                      lookupTable |-> lookupTable, err |-> "nil"]
           v == descriptorList(vd, Len(boot) > 0)
       IN  IF r.err # "nil"
           THEN /\ pc' = "error"
                /\ ret' = r.err
                /\ dirs' = r.dirs
                /\ UNCHANGED <<item, lookupTable, vd, VolumeSpaceSize,
                               freeSectorPointer, itemsToWrite, allocLog>>
           ELSE \E sc \in sectorChoices(r.dirs, DOMAIN r.dirs) :
                \E rootSecs \in sectorsOutcomes(DOMAIN r.dirs[<<>>].children) :
                  LET start  == 16 + Len(v)
                      rootDE == [nil |-> FALSE, ExtentLocation |-> start,
                                 ExtentLength |-> [q |-> rootSecs, r |-> 0],
                                 FileFlags |-> dirFlagDir, Identifier |-> <<0>>]
                  IN  /\ pc' = "plan"
                      /\ ret' = "nil"
                      /\ vd' = v
                      /\ VolumeSpaceSize' =
                             start + recursiveDirSectorCount(r.dirs, r.item, sc)
                      /\ freeSectorPointer' = allocSectors(start, rootSecs)
                      /\ dirs' = [r.dirs EXCEPT ![<<>>].m =
                                      metaSet(@, rootDE, rootDE, start)]
                      /\ item' = r.item
                      /\ lookupTable' = r.lookupTable
                      /\ itemsToWrite' = pushBack(<<>>, DirNode(<<>>))
                      /\ allocLog' = <<[node |-> DirNode(<<>>), lba |-> start,
                                        count |-> rootSecs]>>
    /\ UNCHANGED <<caller, calls, faults, boot, items, writeSecPos, idx,
                   BootSystemUse, bootCat, closeLog, hndlr, sink, writeLog>>

\* one turn of processAll's loop with a directory at the front of the fifo
PlanDirectory ==
    /\ pc = "plan"
    /\ Len(itemsToWrite) > 0
    /\ Head(itemsToWrite).dir
    /\ LET d    == Head(itemsToWrite).p
           subs == {dirs[d].children[nm].p :
                      nm \in {x \in DOMAIN dirs[d].children : dirs[d].children[x].dir}}
       IN  \E sc \in sectorChoices(dirs, subs) :
             LET r == processDirectory(dirs, item, freeSectorPointer,
                                       itemsToWrite, allocLog, d, sc)
             IN  /\ dirs' = r.dirs
                 /\ item' = r.item
                 /\ freeSectorPointer' = r.fsp
                 /\ allocLog' = r.log
                 /\ IF r.err # "nil"
                    THEN /\ pc' = afterPlanError(r.err)
                         /\ ret' = planningError(dirs[d].m.dirPath, r.err)
                         /\ itemsToWrite' = r.queue
                         /\ items' = items
                    ELSE /\ pc' = afterPlanning(Tail(r.queue))
                         /\ ret' = ret
                         /\ itemsToWrite' = Tail(r.queue)
                         /\ items' = Append(items, DirNode(d))
    /\ UNCHANGED <<caller, calls, faults, boot, lookupTable, vd,
                   VolumeSpaceSize, writeSecPos, idx, Catalog, BootSystemUse,
                   bootCat, closeLog, hndlr,
                   sink, writeLog>>

\* one turn of processAll's loop with a file at the front of the fifo
PlanFile ==
    /\ pc = "plan"
    /\ Len(itemsToWrite) > 0
    /\ ~Head(itemsToWrite).dir
    /\ LET r == processFile(item, items, Head(itemsToWrite))
       IN  /\ items' = r.items
           /\ IF r.err # "nil"
              THEN /\ pc' = afterPlanError(r.err)
                   /\ ret' = planningError(
                                 item[Head(itemsToWrite).i].m.dirPath, r.err)
                   /\ itemsToWrite' = itemsToWrite
              ELSE /\ pc' = afterPlanning(Tail(itemsToWrite))
                   /\ ret' = ret
                   /\ itemsToWrite' = Tail(itemsToWrite)
    /\ UNCHANGED <<caller, calls, faults, dirs, item, boot, lookupTable, vd,
                   VolumeSpaceSize, freeSectorPointer, writeSecPos, idx,
                   Catalog, BootSystemUse, bootCat, closeLog, hndlr, sink,
                   allocLog, writeLog>>

(***************************************************************************)
(* The boot catalog (bootcatalog.go).  Bytes are numbers in 0..255.        *)
(***************************************************************************)
Zeros(n) == [i \in 1..n |-> 0]

\* binary.LittleEndian.PutUint16 and PutUint32
PutUint16(v) == <<v % 256, (v \div 256) % 256>>

PutUint32(v) == <<v % 256, (v \div 256) % 256, (v \div 65536) % 256,
                  (v \div 16777216) % 256>>

\* binary.LittleEndian.Uint16(b[i : i+2]), i counted from 0
Uint16(b, i) == b[i + 1] + 256 * b[i + 2]

\* the checksum as the sum of the second byte of every pair, high byte first
RECURSIVE sumOddBytesFrom(_, _, _)
sumOddBytesFrom(b, i, v) ==
    IF i >= Len(b) THEN v
    ELSE LET v1 == (v + b[i + 2]) % 65536
         IN  IF v1 >= 0 THEN sumOddBytesFrom(b, i + 2, v1) ELSE v1

doBootCatalogChecksumOddBytes(b) ==
    LET v == sumOddBytesFrom(b, 0, 0) IN <<v \div 256, v % 256>>

\* the loop of doBootCatalogChecksum: v -= Uint16(b[i : i+2]) in uint16
RECURSIVE checksumFrom(_, _, _)
checksumFrom(b, i, v) ==
    IF i >= Len(b) THEN v
    ELSE LET v1 == (v - Uint16(b, i)) % 65536
         IN  IF v1 >= 0 THEN checksumFrom(b, i + 2, v1) ELSE v1

doBootCatalogChecksum(b) == PutUint16(checksumFrom(b, 0, 0))

\* the Validation Entry: 32 bytes, the checksum copied to bytes 28..29
validationEntry(platformId) ==
    LET b == <<1, platformId, 0, 0>> \o Zeros(24) \o <<0, 0>> \o <<85, 170>>
        v == doBootCatalogChecksum(b)
    IN  [i \in 1..32 |-> IF i = 29 THEN v[1] ELSE IF i = 30 THEN v[2] ELSE b[i]]

\* a sector count that leaves the last, partial block out
sizSecWholeBlocks(siz) == (siz.q * 4 + siz.r \div 512) % 65536

\* the sector count of a UEFI entry: Size() in 512-byte blocks, as uint16
sizSec(siz) ==
    (((siz.q * 4 + siz.r \div 512) % 65536)
        + (IF siz.r % 512 # 0 THEN 1 ELSE 0)) % 65536

\* an encoder that takes the second entry never to be the last one
encodeEntryAllLast(b, i, cnt, its) ==
    (IF i = 1 THEN validationEntry(b.platformId)
     ELSE <<IF i > 2 THEN 145 ELSE 144, b.platformId, 1, 0>> \o Zeros(28))
    \o <<136, b.bootMedia, 0, 0>>
    \o <<0, 0>>
    \o PutUint16(IF b.platformId = 239 THEN sizSec(Size(its[b.file])) ELSE 4)
    \o PutUint32(its[b.file].m.targetSector)
    \o Zeros(20)

\* what encodeBootCatalogs writes for entry i of cnt
encodeEntry(b, i, cnt, its) ==
    (IF i = 1 THEN validationEntry(b.platformId)
     ELSE <<IF i = cnt THEN 145 ELSE 144, b.platformId, 1, 0>> \o Zeros(28))
    \o <<136, b.bootMedia, 0, 0>>
    \o <<0, 0>>
    \o PutUint16(IF b.platformId = 239 THEN sizSec(Size(its[b.file])) ELSE 4)
    \o PutUint32(its[b.file].m.targetSector)
    \o Zeros(20)

RECURSIVE encodeFrom(_, _, _)
encodeFrom(e, i, its) ==
    IF i > Len(e) THEN <<>>
    ELSE LET one == encodeEntry(e[i], i, Len(e), its)
         IN  IF Len(one) = 64 THEN one \o encodeFrom(e, i + 1, its) ELSE one

encodeBootCatalogs(e, its) == encodeFrom(e, 1, its)

\* WriteTo, lines 501-515: the catalog's sector goes into the boot
\* descriptor and the encoded catalog into bootCat.  The lookup is by
\* iw.Catalog as the caller wrote it, while the table is keyed by mangled
\* paths; a missing key gives a nil Item and the call of its meta() panics.
BootCatalog ==
    /\ pc = "patch"
    /\ IF Catalog \in DOMAIN lookupTable
       THEN /\ BootSystemUse' =
                   PutUint32(item[lookupTable[Catalog]].m.targetSector)
            /\ bootCat' = encodeBootCatalogs(boot, item)
            /\ pc' = "zeros"
            /\ ret' = ret
       ELSE /\ BootSystemUse' = BootSystemUse
            /\ bootCat' = bootCat
            /\ pc' = "panic"
            /\ ret' = "panic"
    /\ UNCHANGED <<caller, calls, faults, dirs, item, boot, lookupTable, vd,
                   VolumeSpaceSize, freeSectorPointer, itemsToWrite, items,
                   writeSecPos, idx, Catalog, closeLog, hndlr, sink, allocLog,
                   writeLog>>

(***************************************************************************)
(* The stream emitter (part_002, lines 391-442 and 517-541).               *)
(***************************************************************************)
SzAdd(a, b) == [q |-> a.q + b.q + ((a.r + b.r) \div sectorSize),
                r |-> (a.r + b.r) % sectorSize]

NoNode == [dir |-> FALSE, p |-> <<>>, i |-> 0]

\* whether the next Write of the sink may return an error: only the small
\* and the local caller's sinks fail, at most MaxFaults times
WriteOutcomes ==
    IF caller \in {"small", "local"} /\ faults < MaxFaults
    THEN {TRUE, FALSE} ELSE {TRUE}

\* secCnt: the sectors a write of n bytes is counted as
secCnt(n) == IF n.r # 0 THEN n.q + 1 ELSE n.q

\* the zero bytes written after n bytes
padding(n) == IF n.r # 0 THEN SzOf(sectorSize - n.r) ELSE SzOf(0)

\* the length of a marshalled volume descriptor: one sector
descriptorLen == SzOf(sectorSize)

\* writeSector(buffer, sector) for a buffer of n bytes; ok: whether the
\* sink took the buffer, okPad: whether it took the padding.  A failed
\* padding write is not looked at.
writeSector(n, sector, ok, okPad) ==
    IF sector # writeSecPos
    THEN [err |-> "invalid write", sink |-> sink, writeSecPos |-> writeSecPos]
    ELSE IF ~ok
    THEN [err |-> "io", sink |-> sink, writeSecPos |-> writeSecPos]
    ELSE [err |-> "nil",
          sink |-> IF okPad THEN SzAdd(SzAdd(sink, n), padding(n))
                   ELSE SzAdd(sink, n),
          writeSecPos |-> writeSecPos + secCnt(n)]

\* lines 517-522: one of the 16 sectors of zeroes
WriteZero ==
    /\ pc = "zeros"
    /\ \E ok \in WriteOutcomes :
         LET r == writeSector(SzOf(sectorSize), idx, ok, TRUE)
         IN  /\ sink' = r.sink
             /\ writeSecPos' = r.writeSecPos
             /\ faults' = IF ok THEN faults ELSE faults + 1
             /\ IF r.err # "nil"
                THEN /\ pc' = "error"
                     /\ ret' = r.err
                     /\ idx' = idx
                     /\ writeLog' = writeLog
                ELSE /\ pc' = IF idx + 1 < 16 THEN "zeros" ELSE "desc"
                     /\ ret' = ret
                     /\ idx' = IF idx + 1 < 16 THEN idx + 1 ELSE 0
                     /\ writeLog' = Append(writeLog,
                           [kind |-> "zero", k |-> idx + 1, node |-> NoNode,
                            at |-> writeSecPos,
                            lba |-> idx, bytes |-> SzOf(sectorSize),
                            data |-> <<>>])
    /\ UNCHANGED <<caller, calls, dirs, item, boot, lookupTable, vd,
                   VolumeSpaceSize, freeSectorPointer, itemsToWrite, items,
                   Catalog, BootSystemUse, bootCat, closeLog, hndlr, allocLog>>

\* lines 524-530: one volume descriptor
WriteDescriptor ==
    /\ pc = "desc"
    /\ \E ok \in WriteOutcomes :
         LET r == writeSector(descriptorLen, 16 + idx, ok, TRUE)
         IN  /\ sink' = r.sink
             /\ writeSecPos' = r.writeSecPos
             /\ faults' = IF ok THEN faults ELSE faults + 1
             /\ IF r.err # "nil"
                THEN /\ pc' = "error"
                     /\ ret' = r.err
                     /\ idx' = idx
                     /\ writeLog' = writeLog
                ELSE /\ pc' = IF idx + 1 < Len(vd) THEN "desc"
                              ELSE IF Len(items) > 0 THEN "items" ELSE "done"
                     /\ ret' = ret
                     /\ idx' = IF idx + 1 < Len(vd) THEN idx + 1 ELSE 0
                     /\ writeLog' = Append(writeLog,
                           [kind |-> vd[idx + 1], k |-> idx + 1, node |-> NoNode,
                            at |-> writeSecPos, lba |-> 16 + idx,
                            bytes |-> descriptorLen, data |-> <<>>])
    /\ UNCHANGED <<caller, calls, dirs, item, boot, lookupTable, vd,
                   VolumeSpaceSize, freeSectorPointer, itemsToWrite, items,
                   Catalog, BootSystemUse, bootCat, closeLog, hndlr, allocLog>>

\* the bytes io.Copy finds in an item: what is left in a directory's buffer
\* or in a reader
available(n) ==
    IF n.dir THEN SzOf(dirs[n.p].buf.len - dirs[n.p].buf.rd)
    ELSE item[n.i].left

\* the front of what io.Copy gets from the item, as far as it is followed:
\* what the array cat holds now for a handler whose reader is over that
\* array, nothing for bytes of the handler's own or of a directory
readerBytes(n, cat) ==
    IF ~n.dir /\ item[n.i].reads = "bootCat" THEN cat ELSE <<>>

\* the itemMeta of a node
meta(n) == IF n.dir THEN dirs[n.p].m ELSE item[n.i].m

\* an emitter that closes the item whether or not it was written
closeAlways(log, n, written) == Append(log, n)

\* lines 534-538: buf.Close() is reached when writeSectorBuf returned nil
closeAfter(log, n, written) == IF written THEN Append(log, n) ELSE log

\* a file handler after io.Copy has read it to its end and Close was
\* called: a readerHndlr has nothing left, a filepathHndlr has closed its
\* file and will open it anew
handlerEmitted(h) ==
    IF h.kind = "filepath"
    THEN [h EXCEPT !.left = h.size, !.held = FALSE, !.closed = @ + 1]
    ELSE [h EXCEPT !.left = SzOf(0), !.closed = @ + 1]

\* a file handler after an io.Copy that ended with the sink taking nothing:
\* a readerHndlr hands its bytes over unread (bytes.Reader.WriteTo) and
\* stays where it was; a filepathHndlr was read into io.Copy's buffer, all
\* of it for the files here, and keeps its file open
handlerCopyFailed(h) ==
    IF h.kind = "filepath"
    THEN [h EXCEPT !.left = SzOf(0), !.held = TRUE]
    ELSE h

\* lines 532-539: writeSectorBuf on the next item of the emission list,
\* then its Close.  okCopy: whether the sink took the payload, okPad:
\* whether it took the padding.  An item with nothing to read is copied
\* without a Write.
WriteItem ==
    /\ pc = "items"
    /\ \E okCopy \in (IF available(items[idx + 1]) = SzOf(0)
                      THEN {TRUE} ELSE WriteOutcomes) :
       \E okPad \in (IF okCopy THEN WriteOutcomes ELSE {TRUE}) :
         LET n     == items[idx + 1]
             bytes == available(n)
             pad   == IF okPad THEN padding(bytes) ELSE SzOf(0)
         IN  /\ faults' = faults + (IF okCopy THEN 0 ELSE 1)
                                 + (IF okPad \/ bytes.r = 0 THEN 0 ELSE 1)
             /\ IF ~okCopy
                THEN /\ pc' = "error"
                     /\ ret' = "io"
                     /\ dirs' = IF n.dir
                                THEN [dirs EXCEPT ![n.p].buf.rd = dirs[n.p].buf.len]
                                ELSE dirs
                     /\ closeLog' = closeAfter(closeLog, n, FALSE)
                     /\ item' = IF n.dir THEN item
                                ELSE [item EXCEPT ![n.i] = handlerCopyFailed(@)]
                     /\ UNCHANGED <<sink, writeSecPos, idx, writeLog>>
                ELSE /\ pc' = IF idx + 1 < Len(items) THEN "items" ELSE "done"
                     /\ closeLog' = closeAfter(closeLog, n, TRUE)
                     /\ ret' = ret
                     /\ idx' = idx + 1
                     /\ sink' = SzAdd(SzAdd(sink, bytes), pad)
                     /\ writeSecPos' = writeSecPos + secCnt(bytes)
                     /\ dirs' = IF n.dir
                                THEN [dirs EXCEPT ![n.p].buf.rd = dirs[n.p].buf.len]
                                ELSE dirs
                     /\ item' = IF n.dir THEN item
                                ELSE [item EXCEPT ![n.i] = handlerEmitted(@)]
                     /\ writeLog' = Append(writeLog,
                           [kind |-> "item", k |-> idx + 1, node |-> n,
                            at |-> writeSecPos,
                            lba |-> meta(n).targetSector,
                            bytes |-> SzAdd(bytes, padding(bytes)),
                            data |-> readerBytes(n, bootCat)])
    /\ UNCHANGED <<caller, calls, boot, lookupTable, vd, VolumeSpaceSize,
                   freeSectorPointer, itemsToWrite, items, Catalog,
                   BootSystemUse, bootCat, hndlr, allocLog>>

Next ==
    \/ \E o \in SmallObjects \cup {BulkObject(calls + 1)} :
       \E filePath \in SmallPaths \cup {BulkPath(calls + 1)} :
         AddFile(o, filePath)
    \/ \E platformId \in BootPlatforms :
       \E filePath \in SmallPaths :
       \E o \in SmallObjects :
         AddBootEntry(platformId, 0, filePath, o)
    \/ \E localPath \in LocalPaths :
       \E filePath \in SmallPaths :
         AddLocalFile(localPath, filePath)
    \/ \E catalog \in CatalogPaths : WriteTo(catalog)
    \/ PlanDirectory
    \/ PlanFile
    \/ BootCatalog
    \/ WriteZero
    \/ WriteDescriptor
    \/ WriteItem

Spec == Init /\ [][Next]_vars

\* the same writer, staging, planning and emission, under the name the
\* properties of the allocation order are verified against in a run of
\* their own
SpecLayout == Init /\ [][Next]_vars

(***************************************************************************)
(* Properties of the image layout.                                         *)
(***************************************************************************)
\* the entries of writeLog that are items of the emission list
ItemWrites == {k \in 1..Len(writeLog) : writeLog[k].kind = "item"}

\* the states in which the emitter has started or finished
Emitting == pc \in {"zeros", "desc", "items", "done"}

\* C1: every region is written at its own LBA: when the emitter starts on a
\* system-area sector, a descriptor or an item, writeSecPos is the LBA
\* assigned to the region; for an item that LBA is the targetSector of its
\* metadata, which is also the extent location of its directory record.
C1_RegionsAtOwnLBA ==
    \A k \in 1..Len(writeLog) :
        /\ writeLog[k].at = writeLog[k].lba
        /\ writeLog[k].kind = "item" =>
               writeLog[k].at = meta(writeLog[k].node).ownEntry.ExtentLocation

\* C2: the bytes written for an item, padding included, are the sectors
\* allocated to it in planning times 2048.
C2_ItemBytesAreItsSectors ==
    \A k \in ItemWrites :
        writeLog[k].bytes = [q |-> allocLog[writeLog[k].k].count, r |-> 0]

\* a record of a directory buffer lies in one sector
InOneSector(rec) ==
    rec.off \div sectorSize = (rec.off + rec.len - 1) \div sectorSize

\* C3: no directory record crosses a 2048-byte boundary of its directory's
\* extent.
C3_NoRecordCrossesSector ==
    \A d \in DOMAIN dirs :
        \A k \in 1..Len(dirs[d].buf.recs) : InOneSector(dirs[d].buf.recs[k])

\* the number of volume descriptors: primary and terminator, and the boot
\* record when a boot entry was staged
DescriptorCount == IF Len(boot) > 0 THEN 3 ELSE 2

\* the LBA the k-th allocation has to start at: the sectors of the system
\* area and the descriptors, then the sectors of the allocations before it
RECURSIVE ExpectedLBA(_)
ExpectedLBA(k) ==
    IF k = 1 THEN 16 + DescriptorCount
    ELSE ExpectedLBA(k - 1) + allocLog[k - 1].count

\* C4: the LBA of every planned item is 16 + D + the sum of the sector
\* counts allocated before it, so extents are contiguous and disjoint; that
\* LBA is in the item's metadata and in its record in the parent directory.
C4_LBAIsRunningSum ==
    /\ \A k \in 1..Len(allocLog) :
          /\ allocLog[k].lba = ExpectedLBA(k)
          /\ (\A j \in (k + 1)..Len(allocLog) :
                  allocLog[j].node # allocLog[k].node)
             => /\ meta(allocLog[k].node).targetSector = allocLog[k].lba
                /\ meta(allocLog[k].node).ownEntry.ExtentLocation
                       = allocLog[k].lba
    /\ \A d \in DOMAIN dirs :
          \A k \in 3..Len(dirs[d].buf.recs) :
             LET de == dirs[d].buf.recs[k].de
             IN  \E j \in 1..Len(allocLog) :
                    /\ allocLog[j].node = dirs[d].children[de.Identifier]
                    /\ allocLog[j].lba = de.ExtentLocation
    /\ Emitting => freeSectorPointer = ExpectedLBA(Len(allocLog) + 1)

C4_Witness ==
    /\ pc = "zeros"
    /\ Len(boot) > 0
    /\ \E k \in 1..(Len(allocLog) - 1) : allocLog[k].count = 2

\* C5: the emission list is in allocation order, and the emitter writes its
\* entries in that order, each entry once.
C5_EmissionOrderIsAllocationOrder ==
    /\ Len(items) <= Len(allocLog)
    /\ \A k \in 1..Len(items) : items[k] = allocLog[k].node
    /\ Emitting => Len(items) = Len(allocLog)
    /\ \A k \in ItemWrites :
          /\ writeLog[k].k = k - (16 + Len(vd))
          /\ writeLog[k].node = items[writeLog[k].k]
    /\ pc = "done" => Cardinality(ItemWrites) = Len(items)

C5_Witness ==
    /\ pc = "done"
    /\ Len(items) >= 5
    /\ \E k \in 1..Len(items) : ~items[k].dir /\ k < Len(items)

\* C6: after a successful WriteTo the volume space size of the primary
\* descriptor is 16 + D + the sectors of the emission list, which is the
\* final value of the free-sector cursor.
C6_VolumeSpaceSizeIsFinalCursor ==
    pc = "done" =>
        /\ VolumeSpaceSize = ExpectedLBA(Len(allocLog) + 1)
        /\ VolumeSpaceSize = freeSectorPointer

\* C7: in every directory extent the child records follow the self and
\* parent records in strictly ascending byte-wise order of their names.
C7_ChildRecordsAscending ==
    \A d \in DOMAIN dirs :
        LET recs == dirs[d].buf.recs
        IN  /\ Len(recs) >= 1 => recs[1].de.Identifier = <<0>>
            /\ Len(recs) >= 2 => recs[2].de.Identifier = <<1>>
            /\ \A k \in 3..(Len(recs) - 1) :
                  StrLess(recs[k].de.Identifier, recs[k + 1].de.Identifier)

C7_Witness ==
    \E d \in DOMAIN dirs :
        /\ caller = "bulk"
        /\ Len(dirs[d].buf.recs) >= 5
        /\ Len(dirs[d].buf.recs) = 2 + Cardinality(DOMAIN dirs[d].children)

\* C8: when WriteTo returns success the bytes the sink has taken are a
\* multiple of 2048.
C8_TotalIsWholeSectors == pc = "done" => sink.r = 0

\* the kinds of the regions that come before the items
ExpectedHead ==
    [k \in 1..16 |-> "zero"]
        \o (IF Len(boot) > 0 THEN <<"primary", "boot", "terminator">>
            ELSE <<"primary", "terminator">>)

\* C9: the emitter writes 16 sectors of zeroes at LBA 0..15, then the
\* descriptors from LBA 16 on in the order primary, boot record (exactly
\* when a boot entry was staged), terminator, then the items of the
\* emission list, the root extent first, at LBA 16 + D.
C9_WriteOrder ==
    LET head == ExpectedHead
        n    == Len(head)
    IN  /\ \A k \in 1..Len(writeLog) :
              IF k <= n
              THEN /\ writeLog[k].kind = head[k]
                   /\ writeLog[k].at = k - 1
                   /\ writeLog[k].bytes = SzOf(sectorSize)
              ELSE /\ writeLog[k].kind = "item"
                   /\ k = n + 1 =>
                          /\ writeLog[k].node = DirNode(<<>>)
                          /\ writeLog[k].at = 16 + DescriptorCount
        /\ pc \in {"items", "done"} => Len(writeLog) >= n
        /\ pc = "done" => Len(writeLog) > n

C9_Witness ==
    /\ pc = "done"
    /\ Len(boot) > 0
    /\ Len(writeLog) >= 16 + 3 + 4

\* the nodes of the tree: every directory and every child of a directory
TreeNodes ==
    {DirNode(d) : d \in DOMAIN dirs}
        \cup UNION {{dirs[d].children[nm] : nm \in DOMAIN dirs[d].children}
                    : d \in DOMAIN dirs}

\* a node the planner has finished with: own record, parent record and LBA
\* are in its metadata
Planned(n) ==
    /\ ~meta(n).ownEntry.nil
    /\ ~meta(n).parentEntry.nil
    /\ meta(n).targetSector >= 16 + DescriptorCount
    /\ meta(n).targetSector = meta(n).ownEntry.ExtentLocation
    /\ n.dir => Len(dirs[n.p].buf.recs) = 2 + Cardinality(DOMAIN dirs[n.p].children)

\* C10: nothing reaches the sink before planning has finished: from the
\* first write on, every directory and every Content Source of the tree,
\* the boot files among them, has its own record, its parent record and
\* its LBA, and the planner's fifo is empty.
C10_PlanningBeforeWriting ==
    (writeLog # <<>> \/ sink # SzOf(0) \/ writeSecPos # 0) =>
        /\ itemsToWrite = <<>>
        /\ \A n \in TreeNodes : Planned(n)
        /\ \A k \in 1..Len(boot) : Planned(FileNode(boot[k].file))
        /\ \A n \in TreeNodes : \E k \in 1..Len(items) : items[k] = n

C10_Witness ==
    /\ Len(writeLog) = 1
    /\ Len(boot) > 0
    /\ \E d \in DOMAIN dirs : Len(d) = 2

\* an emission of the writer as NewWriter returned it, on a sink that took
\* every write
EmptyEmitted == pc = "done" /\ calls = 0 /\ faults = 0

\* C11 as stated: emitting an empty writer writes exactly 18 sectors, with
\* VolumeSpaceSize = 18 and no sector allocated to the root extent.
C11_EmptyWriterIs18Sectors ==
    EmptyEmitted =>
        /\ sink = [q |-> 18, r |-> 0]
        /\ VolumeSpaceSize = 18
        /\ allocLog[1].count = 0

\* C11 amended: emitting an empty writer writes exactly 19 sectors: 16 zero
\* sectors, the primary descriptor, the terminator and one sector with the
\* root directory's self and parent records at LBA 18; VolumeSpaceSize = 19
\* and one sector is allocated to the root extent.
C11_EmptyWriterIs19Sectors ==
    EmptyEmitted =>
        /\ sink = [q |-> 19, r |-> 0]
        /\ VolumeSpaceSize = 19
        /\ allocLog = <<[node |-> DirNode(<<>>), lba |-> 18, count |-> 1]>>
        /\ [k \in 1..Len(writeLog) |-> writeLog[k].kind]
               = [k \in 1..16 |-> "zero"] \o <<"primary", "terminator", "item">>
        /\ Len(dirs[<<>>].buf.recs) = 2
        /\ dirs[<<>>].buf.len = 68

C11_Witness == EmptyEmitted

\* the 3-byte reader 1 staged as "a" and nothing else, emitted on a sink
\* that took every write
SingleFileEmitted ==
    /\ pc = "done"
    /\ faults = 0
    /\ calls = 1
    /\ lookupTable = (<< <<65, 59, 49>> >> :> 1)

\* C12: one 3-byte file under a root-level path gives the root extent at
\* LBA 18 (one sector: self, parent and the file's record), the file at
\* LBA 19, 20 sectors and VolumeSpaceSize = 20; no directory is created for
\* the path.
C12_SingleRootFile ==
    SingleFileEmitted =>
        /\ DOMAIN dirs = { <<>> }
        /\ allocLog = <<[node |-> DirNode(<<>>), lba |-> 18, count |-> 1],
                        [node |-> FileNode(1),   lba |-> 19, count |-> 1]>>
        /\ Len(dirs[<<>>].buf.recs) = 3
        /\ dirs[<<>>].buf.recs[3].de.Identifier = <<65, 59, 49>>
        /\ sink = [q |-> 20, r |-> 0]
        /\ VolumeSpaceSize = 20

\* C13 as stated: any two allocations of one emission have different LBAs,
\* the later one the strictly greater.
C13_LBAStrictlyMonotonic ==
    \A j \in 1..Len(allocLog) : \A k \in (j + 1)..Len(allocLog) :
        allocLog[j].lba < allocLog[k].lba

\* C13 amended: LBAs never decrease in allocation order, and the later of
\* two allocations has the same LBA as the earlier exactly when every
\* allocation from the earlier up to it took 0 sectors, which only a
\* zero-length file does.
C13_LBAMonotonic ==
    /\ \A j \in 1..Len(allocLog) : \A k \in (j + 1)..Len(allocLog) :
          /\ allocLog[j].lba <= allocLog[k].lba
          /\ allocLog[j].lba = allocLog[k].lba
                 <=> \A i \in j..(k - 1) : allocLog[i].count = 0
    /\ \A j \in 1..Len(allocLog) :
          allocLog[j].count = 0 =>
              /\ ~allocLog[j].node.dir
              /\ item[allocLog[j].node.i].size = SzOf(0)

C13_Witness ==
    /\ Emitting
    /\ \E j \in 1..(Len(allocLog) - 1) :
          /\ allocLog[j].count = 0
          /\ allocLog[j + 1].lba = allocLog[j].lba
    /\ \E j \in 1..(Len(allocLog) - 1) : allocLog[j].count = 2

\* the call was made on a path whose mangled leaf name is taken in the
\* directory the path leads to
LeafTaken(filePath) ==
    LET d == SplitJoined(manglePath(filePath).dir)
    IN  /\ d \in DOMAIN dirs
        /\ manglePath(filePath).name \in DOMAIN dirs[d].children

\* a staging step on filePath by any of the three calls
AddStep(filePath) ==
    \/ \E o \in SmallObjects \cup {BulkObject(calls + 1)} :
          \/ AddFile(o, filePath)
          \/ \E platformId \in BootPlatforms :
                AddBootEntry(platformId, 0, filePath, o)
    \/ \E localPath \in LocalPaths : AddLocalFile(localPath, filePath)

\* C14 as stated: AddFile, AddLocalFile and AddBootEntry on a path whose
\* mangled leaf name is already in the target directory return
\* already-exists, leave the tree, the handlers, the lookup table and the
\* boot entries as they were, and leave the writer staging.
C14_AlreadyExistsAllCalls ==
    [][pc = "idle" =>
         \A filePath \in SmallPaths \cup {BulkPath(calls + 1)} :
            (LeafTaken(filePath) /\ AddStep(filePath))
            => /\ ret' = "ErrExist"
               /\ UNCHANGED <<dirs, item, lookupTable, boot>>
               /\ pc' = "idle"]_vars

\* what NewItemFile's error is returned as
localFileError(localPath) ==
    IF NewItemFile(localPath).err = "ErrIsDir"
    THEN "unable to add local file: ErrIsDir"
    ELSE "unable to add local file: stat"

\* C14: AddFile and AddBootEntry on a path whose mangled leaf name is
\* already in the target directory return already-exists, and so does
\* AddLocalFile when its local path is a file that can be stat-ed; with a
\* local path that cannot be stat-ed or is a directory AddLocalFile returns
\* that error instead.  In every case the tree, the handlers, the lookup
\* table and the boot entries stay as they were and the writer keeps
\* staging.
C14_AlreadyExists ==
    [][pc = "idle" =>
         \A filePath \in SmallPaths \cup {BulkPath(calls + 1)} :
            LeafTaken(filePath) =>
               /\ \A o \in SmallObjects \cup {BulkObject(calls + 1)} :
                     (\/ AddFile(o, filePath)
                      \/ \E platformId \in BootPlatforms :
                             AddBootEntry(platformId, 0, filePath, o))
                     => /\ ret' = "ErrExist"
                        /\ UNCHANGED <<dirs, item, lookupTable, boot>>
                        /\ pc' = "idle"
               /\ \A localPath \in LocalPaths :
                     AddLocalFile(localPath, filePath)
                     => /\ ret' = (IF NewItemFile(localPath).err = "nil"
                                   THEN "ErrExist"
                                   ELSE localFileError(localPath))
                        /\ UNCHANGED <<dirs, item, lookupTable, boot>>
                        /\ pc' = "idle"]_vars

\* after an already-exists the next call was accepted: three calls, two
\* files staged, the last call returned nil, a boot entry is there
C14_Witness ==
    /\ pc = "idle"
    /\ calls = 3
    /\ ret = "nil"
    /\ Cardinality(DOMAIN lookupTable) = 2
    /\ Len(boot) = 1

\* the local caller was refused a file on a taken leaf and is staging on
C14_LocalRefused ==
    /\ caller = "local"
    /\ pc = "idle"
    /\ ret = "ErrExist"
    /\ Cardinality(DOMAIN lookupTable) = 1

(***************************************************************************)
(* getDir on its own.  AddFile and AddBootEntry hand getDir a path of      *)
(* mangled directory names, which never is the name of a file (a file name *)
(* ends in ";1", a directory name has no ";").  AddFileAt is the body of   *)
(* AddFile from line 151 on with the directory path and the file name      *)
(* given as they are, so that getDir meets staged files.                   *)
(***************************************************************************)
\* "P/H;1", "P/H;1/X", "/A;1" and "P/X", split at "/"
UnitDirPaths == { << <<80>>, <<72, 59, 49>> >>,
                  << <<80>>, <<72, 59, 49>>, <<88>> >>,
                  << <<>>, <<65, 59, 49>> >>,
                  << <<80>>, <<88>> >> }

\* "Z;1"
UnitNames == { <<90, 59, 49>> }

AddFileAt(o, directoryPath, fileName) ==
    /\ pc = "idle"
    /\ caller = "small"
    /\ calls < MaxCalls
    /\ o \in SmallObjects
    /\ (o \in DOMAIN item => ObjIsItem(o))
    /\ LET r == stageAt(dirs, item, lookupTable, o, ObjSize(o), ObjIsItem(o),
                        directoryPath, fileName)
       IN  /\ dirs' = r.dirs
           /\ item' = r.item
           /\ lookupTable' = r.lookupTable
           /\ ret' = r.err
    /\ calls' = calls + 1
    /\ UNCHANGED <<caller, faults, boot, pc, sink, allocLog, writeLog>>
    /\ UNCHANGED context

NextGetDir ==
    \/ \E o \in SmallObjects \cup {BulkObject(calls + 1)} :
       \E filePath \in SmallPaths \cup {BulkPath(calls + 1)} :
         AddFile(o, filePath)
    \/ \E o \in SmallObjects :
       \E directoryPath \in UnitDirPaths :
       \E fileName \in UnitNames :
         AddFileAt(o, directoryPath, fileName)

SpecGetDir == Init /\ [][NextGetDir]_vars

\* the walk along directoryPath comes to a segment that names a staged file
HitsFile(directoryPath) ==
    \E k \in 1..Len(directoryPath) :
        LET pre == SubSeq(directoryPath, 1, k - 1)
        IN  /\ pre \in DOMAIN dirs
            /\ directoryPath[k] \in DOMAIN dirs[pre].children
            /\ ~dirs[pre].children[directoryPath[k]].dir

\* C15: when path resolution comes to a segment that is the name of a
\* staged file, the staging call returns is-dir and nothing is inserted:
\* the tree, the handlers and the lookup table stay as they were; is-dir is
\* returned in no other case.
C15_IsDir ==
    [][\A o \in SmallObjects :
       \A directoryPath \in UnitDirPaths :
       \A fileName \in UnitNames :
          AddFileAt(o, directoryPath, fileName)
          => /\ HitsFile(directoryPath) <=> ret' = "ErrIsDir"
             /\ HitsFile(directoryPath)
                    => UNCHANGED <<dirs, item, lookupTable, boot>>]_vars

C15_Witness ==
    /\ ret = "ErrIsDir"
    /\ Cardinality(DOMAIN lookupTable) = 2

\* some staged file has more than 2^32 - 1 bytes
OversizeStaged ==
    \E o \in DOMAIN item :
        item[o].size.q * 2 + (IF item[o].size.r > 1023 THEN 1 ELSE 0)
            > 2 * MaxUint32Q + 1

\* WriteTo has returned, or is past the planning of the tree
PlannedOrReturned ==
    pc \in {"patch", "zeros", "desc", "items", "done", "error", "panic"}

\* C16: WriteTo fails with too-large if some staged file has more than
\* 2^32 - 1 bytes, and does not fail with too-large when every staged file
\* has at most 2^32 - 1 bytes (a file of exactly 2^32 - 1 bytes is planned).
C16_TooLarge ==
    /\ (PlannedOrReturned /\ OversizeStaged)
           => pc = "error" /\ ret = "ErrFileTooLarge"
    /\ (pc # "idle" /\ ~OversizeStaged) => ret # "ErrFileTooLarge"
    /\ (pc = "idle" => ret # "ErrFileTooLarge")

\* the error WriteTo returns when the planning of a directory has met a
\* file that is too large: the text of ErrFileTooLarge behind the prefixes
\* of processAll and WriteTo, an error that is not ErrFileTooLarge and does
\* not wrap it
TooLargeInPlanning == planningError(<<>>, "ErrFileTooLarge")

\* what holds of the failure: WriteTo fails, with the text of too-large in
\* a new error, exactly when a file of more than 2^32 - 1 bytes is staged
C16_FailsWithTooLargeText ==
    /\ (PlannedOrReturned /\ OversizeStaged)
           => pc = "error" /\ ret = TooLargeInPlanning
    /\ (pc # "idle" /\ ~OversizeStaged) => ret # TooLargeInPlanning
    /\ (pc = "idle" => ret # TooLargeInPlanning)

\* a WriteTo that failed on a file of 2^32 bytes
C16_Witness ==
    /\ pc = "error"
    /\ ret = TooLargeInPlanning
    /\ \E o \in DOMAIN item : item[o].size = [q |-> MaxUint32Q + 1, r |-> 0]

\* a WriteTo that went through with a file of 2^32 - 1 bytes
LargestFileEmitted ==
    /\ pc = "done"
    /\ ret = "nil"
    /\ \E o \in DOMAIN item : item[o].size = [q |-> MaxUint32Q, r |-> 2047]

\* C17: once a write to the sink has returned an error (of payload bytes, of
\* a descriptor or of zero padding), WriteTo hands nothing more to the sink
\* and returns an error: the step of the failed write ends in the error
\* state, and no later step changes the sink.
C17_WriteErrorStops ==
    [][/\ faults' > faults => pc' = "error" /\ ret' # "nil"
       /\ faults > 0 => sink' = sink /\ writeLog' = writeLog]_vars

\* WriteTo is between the back-patch and the writing of the boot descriptor,
\* or has stopped at the back-patch
AtBackPatch == Len(boot) > 0 /\ pc \in {"zeros", "desc", "panic"}

\* C18: with a boot entry staged, WriteTo after planning and before the boot
\* descriptor is written has the LBA of the catalog file (the file staged
\* under iw.Catalog, "BOOT.CAT" by default) in BootSystemUse[0..4],
\* little-endian, and the encoded catalog in that file's buffer.
C18_CatalogBackPatch ==
    AtBackPatch =>
        /\ pc # "panic"
        /\ CatalogObject \in DOMAIN item
        /\ BootSystemUse = PutUint32(item[CatalogObject].m.targetSector)
        /\ bootCat = encodeBootCatalogs(boot, item)

\* the child the tree has under a joined path
ChildAt(path) ==
    dirs[SplitJoined(SubSeq(path, 1, Len(path) - 1))].children[path[Len(path)]]

\* the objects handed to a staging call as Items: those of the callers,
\* the handlers of NewItemFile, the catalog's bufHndlr
HandedAsItem(o) ==
    \/ ObjIsItem(o)
    \/ o = CatalogObject
    \/ o \in { LocalObject(k) : k \in 1..MaxCalls }

\* C19: a staged Item is in the tree as that very object, not wrapped in or
\* copied to another handler, under every path it was staged with; the
\* catalog file so reads the array of bootCat, and the bytes put into that
\* array by the back-patch are the bytes emitted for the catalog file.
C19_CatalogAliased ==
    /\ \A path \in DOMAIN lookupTable :
          ChildAt(path) = FileNode(lookupTable[path])
    /\ \A o \in DOMAIN item :
          /\ HandedAsItem(o) => item[o].stored = "as given"
          /\ o = CatalogObject => item[o].reads = "bootCat"
    /\ \A k \in ItemWrites :
          writeLog[k].node = FileNode(CatalogObject)
          => /\ writeLog[k].data = bootCat
             /\ Len(bootCat) = 64 * Len(boot)
             /\ bootCat[1] = 1
             /\ SubSeq(bootCat, 41, 44) = PutUint32(item[boot[1].file].m.targetSector)

\* the image is out, with the patched catalog file in it and an Item that
\* is in the tree under two paths
C19_Witness ==
    /\ pc = "done"
    /\ \E k \in ItemWrites :
          /\ writeLog[k].node = FileNode(CatalogObject)
          /\ writeLog[k].data # <<>>
          /\ item[CatalogObject].stored = "as given"
    /\ \E p1 \in DOMAIN lookupTable : \E p2 \in DOMAIN lookupTable :
          p1 # p2 /\ lookupTable[p1] = lookupTable[p2]

(***************************************************************************)
(* The catalog encoder on every platform id and on boot files of every     *)
(* size class.  A first boot entry with any platform id is staged, after a *)
(* first entry for x86 or EFI a second one, then WriteTo plans the tree    *)
(* and encodes the catalog.                                                *)
(***************************************************************************)
\* platformId is a byte
AllPlatforms == 0..255

\* the paths of the first boot entry: "a" and "p/x/f"
FirstBootPaths == { << <<97>> >>, << <<112>>, <<120>>, <<102>> >> }

\* the boot files: 0, 1024, 2049, 65535 * 512, 2^25 + 1 and 2^32 - 1 bytes
BootItems == {2} \cup LargeItems \cup EdgeItems

NextEncode ==
    \/ /\ boot = <<>>
       /\ \E platformId \in AllPlatforms :
          \E filePath \in FirstBootPaths :
          \E o \in BootItems :
            AddBootEntry(platformId, 0, filePath, o)
    \/ /\ Len(boot) = 1
       /\ boot[1].platformId \in BootPlatforms
       /\ \E platformId \in BootPlatforms :
          \E filePath \in SmallPaths :
          \E o \in BootItems :
            AddBootEntry(platformId, 0, filePath, o)
    \/ \E catalog \in CatalogPaths : WriteTo(catalog)
    \/ PlanDirectory
    \/ PlanFile
    \/ BootCatalog

SpecEncode == Init /\ [][NextEncode]_vars

\* the sum of the 16-bit little-endian words of b
RECURSIVE WordSumFrom(_, _)
WordSumFrom(b, i) ==
    IF i >= Len(b) THEN 0 ELSE b[i + 1] + 256 * b[i + 2] + WordSumFrom(b, i + 2)

\* C20: for every platform id of the first boot entry, the sixteen 16-bit
\* little-endian words of the 32-byte validation entry the encoder makes,
\* the checksum at bytes 28..29 among them, add up to 0 modulo 2^16.
C20_ValidationEntrySumsToZero ==
    bootCat # <<>> =>
        /\ SubSeq(bootCat, 1, 4) = <<1, boot[1].platformId, 0, 0>>
        /\ SubSeq(bootCat, 31, 32) = <<85, 170>>
        /\ WordSumFrom(SubSeq(bootCat, 1, 32), 0) % 65536 = 0

\* a catalog encoded for platform 255, whose checksum has both bytes set
C20_Witness ==
    /\ bootCat # <<>>
    /\ boot[1].platformId = 255
    /\ bootCat[29] # 0
    /\ bootCat[30] # 0

\* the 32 bytes of the encoded catalog that start at offset off
CatalogBlock(off) == SubSeq(bootCat, off + 1, off + 32)

\* C21: the catalog encoded for N >= 1 boot entries has 64*N bytes, in the
\* order of the AddBootEntry calls: for entry 0 a validation entry and an
\* initial/default entry, for each later entry a 32-byte section header and
\* a 32-byte section entry; the header indicator is 0x91 for the last entry
\* of the list and 0x90 for every other later entry.
C21_CatalogLayout ==
    bootCat # <<>> =>
        /\ Len(boot) >= 1
        /\ Len(bootCat) = 64 * Len(boot)
        /\ SubSeq(CatalogBlock(0), 1, 4) = <<1, boot[1].platformId, 0, 0>>
        /\ SubSeq(CatalogBlock(0), 31, 32) = <<85, 170>>
        /\ \A i \in 1..Len(boot) :
              /\ SubSeq(CatalogBlock(64 * (i - 1) + 32), 1, 2)
                     = <<136, boot[i].bootMedia>>
              /\ i > 1 =>
                    /\ CatalogBlock(64 * (i - 1))[1]
                           = (IF i = Len(boot) THEN 145 ELSE 144)
                    /\ SubSeq(CatalogBlock(64 * (i - 1)), 2, 32)
                           = <<boot[i].platformId, 1, 0>> \o Zeros(28)

\* a catalog of three entries whose platforms tell the order
C21_Witness ==
    /\ Len(bootCat) = 192
    /\ boot[1].platformId = 239
    /\ boot[2].platformId = 0
    /\ boot[3].platformId = 239

\* the 512-byte blocks a file of siz bytes takes
Blocks512(siz) == siz.q * 4 + (siz.r + 511) \div 512

\* the sector_count and load_rba fields of the entry of boot entry i
SectorCountField(i) == Uint16(bootCat, 64 * (i - 1) + 32 + 6)

LoadRbaField(i) ==
    LET off == 64 * (i - 1) + 32 + 8
    IN  bootCat[off + 1] + 256 * bootCat[off + 2] + 65536 * bootCat[off + 3]
            + 16777216 * bootCat[off + 4]

\* C22 as stated: in every initial/default entry and section entry the
\* sector_count field is 4 for a platform other than EFI and the ceiling of
\* size/512 for EFI (0xEF), for every size of the boot file below 2^32, and
\* load_rba is the LBA planning gave the entry's boot file.
C22_SectorCountIsCeiling ==
    bootCat # <<>> =>
        \A i \in 1..Len(boot) :
            /\ SectorCountField(i) =
                   (IF boot[i].platformId = 239
                    THEN Blocks512(item[boot[i].file].size) ELSE 4)
            /\ LoadRbaField(i) = item[boot[i].file].m.targetSector

\* C22: the sector_count field is 4 for a platform other than EFI and, for
\* EFI, the ceiling of size/512 taken modulo 2^16 (the ceiling itself when it
\* is below 2^16); load_rba is the LBA planning gave the entry's boot file.
C22_SectorCountIsCeilingMod16 ==
    bootCat # <<>> =>
        \A i \in 1..Len(boot) :
            /\ SectorCountField(i) =
                   (IF boot[i].platformId = 239
                    THEN Blocks512(item[boot[i].file].size) % 65536 ELSE 4)
            /\ LoadRbaField(i) = item[boot[i].file].m.targetSector

\* a catalog of two EFI entries: the initial entry for the file of 1024
\* bytes, the section entry for the file of 2^25 + 1 bytes
C22_Witness ==
    /\ Len(bootCat) = 128
    /\ boot[1].platformId = 239
    /\ item[boot[1].file].size = SzOf(1024)
    /\ SectorCountField(1) = 2
    /\ boot[2].platformId = 239
    /\ item[boot[2].file].size = [q |-> 16384, r |-> 1]
    /\ SectorCountField(2) = 1
    /\ LoadRbaField(2) >= 18

\* a catalog whose section entry is the EFI one for the empty file, after
\* an initial entry for x86
EmptyFileSectionEncoded ==
    /\ Len(bootCat) = 128
    /\ boot[1].platformId = 0
    /\ SectorCountField(1) = 4
    /\ boot[2].platformId = 239
    /\ item[boot[2].file].size = SzOf(0)
    /\ SectorCountField(2) = 0

\* a catalog whose initial entry is the EFI one for the file of 2^32 - 1
\* bytes, and one for the file of 65535 * 512 bytes
LargestFilesEncoded ==
    /\ bootCat # <<>>
    /\ boot[1].platformId = 239
    /\ \/ /\ item[boot[1].file].size = [q |-> MaxUint32Q, r |-> 2047]
          /\ SectorCountField(1) = 0
          /\ Len(boot) = 1
       \/ /\ item[boot[1].file].size = [q |-> 16383, r |-> 1536]
          /\ SectorCountField(1) = 65535
          /\ Len(boot) = 2

\* a catalog with an EFI entry for the file of 2049 bytes, 5 blocks
SmallEfiEntryEncoded ==
    /\ bootCat # <<>>
    /\ boot[1].platformId = 239
    /\ SectorCountField(1) = 5

\* C26: in a WriteTo that succeeds every item of the emission list is closed
\* once, after its bytes and its padding have gone to the sink and before
\* the next item is read; when the emission stops while item k is written,
\* the items after k in the emission list are not closed.
C26_ClosedOnceInOrder ==
    /\ pc \in {"items", "done"} =>
          /\ closeLog = SubSeq(items, 1, idx)
          /\ Len(closeLog) = Cardinality(ItemWrites)
    /\ pc = "done" => closeLog = items
    /\ (pc = "error" /\ writeLog # <<>>) =>
          /\ Len(closeLog) = Cardinality(ItemWrites)
          /\ closeLog = SubSeq(items, 1, Len(closeLog))
    /\ \A o \in DOMAIN item :
          item[o].closed =
              Cardinality({k \in 1..Len(closeLog) : closeLog[k] = FileNode(o)})

\* the writing stopped at the second item of three or more, with the first
\* one closed and no other
C26_Witness ==
    /\ pc = "error"
    /\ Len(closeLog) = 1
    /\ Len(items) >= 3
    /\ Cardinality(ItemWrites) = 1

\* C27: Size() of a staged Content Source gives the same value on every
\* call from staging to the end of the emission, however many of its bytes
\* have been read: it is the size the source was staged with.
C27_SizeStable ==
    \A o \in DOMAIN item : Size(item[o]) = item[o].size

\* C25: mangling is idempotent: every name the tree holds, which is the
\* mangled form of a path component, is left as it is by mangleFileName (a
\* file) or mangleDirectoryName (a directory), so that a path already
\* mangled resolves to the same stored name.
C25_MangleIdempotent ==
    \A d \in DOMAIN dirs :
        \A nm \in DOMAIN dirs[d].children :
            IF dirs[d].children[nm].dir
            THEN mangleDirectoryName(nm) = nm
            ELSE mangleFileName(nm) = nm

\* the loop of itemDir.sectors over the names in the order of the sequence
RECURSIVE SectorsInOrder(_, _, _)
SectorsInOrder(names, k, st) ==
    IF k > Len(names) THEN (IF st[2] > 0 THEN st[1] + 1 ELSE st[1])
    ELSE LET st1 == sectorsStep(st, entryLength(names[k]))
         IN  IF st1[1] >= 0 THEN SectorsInOrder(names, k + 1, st1) ELSE 0

\* C29: the sector count of a directory does not depend on the order in
\* which the child names are taken: whatever order the map gives them in,
\* sectors() returns one and the same value, the count for the sorted order
\* in which the records are written.
C29_SectorsOrderInsensitive ==
    \A d \in DOMAIN dirs :
        sectorsOutcomes(DOMAIN dirs[d].children)
            = { SectorsInOrder(sortNames(DOMAIN dirs[d].children), 1, <<0, 68>>) }

\* the allocation made for directory d
AllocOfDir(d) == allocLog[CHOOSE j \in 1..Len(allocLog) : allocLog[j].node = DirNode(d)]

\* the directory above d, the root for the root
ParentDir(d) == IF d = <<>> THEN <<>> ELSE SubSeq(d, 1, Len(d) - 1)

\* C30: every directory extent begins with a self record (identifier 0x00)
\* with the directory's own extent location and length, then a parent
\* record (identifier 0x01) with those of the parent directory (the root's
\* own for the root), then one record per child with the LBA the child was
\* assigned and its length: the size in bytes of a file, the sectors times
\* 2048 of a directory.
C30_DirectoryExtentRecords ==
    \A d \in DOMAIN dirs :
        LET recs  == dirs[d].buf.recs
            names == sortNames(DOMAIN dirs[d].children)
            own   == AllocOfDir(d)
            above == AllocOfDir(ParentDir(d))
        IN  Len(recs) >= 2 =>
              /\ recs[1].off = 0
              /\ recs[1].de.Identifier = <<0>>
              /\ recs[1].de.FileFlags = dirFlagDir
              /\ recs[1].de.ExtentLocation = own.lba
              /\ recs[1].de.ExtentLength = [q |-> own.count, r |-> 0]
              /\ recs[2].de.Identifier = <<1>>
              /\ recs[2].de.ExtentLocation = above.lba
              /\ recs[2].de.ExtentLength = [q |-> above.count, r |-> 0]
              /\ Len(recs) <= 2 + Len(names)
              /\ (pc \notin {"plan", "error"} => Len(recs) = 2 + Len(names))
              /\ \A k \in 1..(Len(recs) - 2) :
                    LET c  == dirs[d].children[names[k]]
                        de == recs[2 + k].de
                    IN  /\ de.Identifier = names[k]
                        /\ \E j \in 1..Len(allocLog) :
                              /\ allocLog[j].node = c
                              /\ allocLog[j].lba = de.ExtentLocation
                              /\ de.ExtentLength =
                                     (IF c.dir THEN [q |-> allocLog[j].count, r |-> 0]
                                      ELSE item[c.i].size)
                        /\ c.dir => de.ExtentLocation = AllocOfDir(c.p).lba
                        /\ de.FileFlags = (IF c.dir THEN dirFlagDir ELSE 0)

\* the image is out with a directory two levels below the root that holds a
\* file, and a directory that holds a file and a directory
C30_Witness ==
    /\ pc = "done"
    /\ \E d \in DOMAIN dirs :
          /\ Len(d) = 2
          /\ \E nm \in DOMAIN dirs[d].children : ~dirs[d].children[nm].dir
    /\ \E d \in DOMAIN dirs :
          /\ \E nm \in DOMAIN dirs[d].children : ~dirs[d].children[nm].dir
          /\ \E nm \in DOMAIN dirs[d].children : dirs[d].children[nm].dir

(***************************************************************************)
(* One Content Source on its own: a boot file from staging to emission.    *)
(* hndlr is the handler: kind is its type, from the kind of reader the     *)
(* caller gave, d its bytes (orig: as they were staged), held whether it   *)
(* holds the thing it reads from (f of a filepathHndlr, r of a             *)
(* bufferHndlr), pos the bytes read through it, last the last call made on *)
(* it, err what that call returned, opens and released the files opened    *)
(* and closed for it, closes the calls of Close, items the Items of an     *)
(* itemConcat (pos is then the index of the one being read), touched      *)
(* whether the caller has read from it after WriteTo returned.             *)
(* AddBootEntry stages the Item NewItemReader gives, in an entry without   *)
(* BootInfoTable.  bufferizeItem, which no function of the source files    *)
(* calls, is applied on its own to make the bufferHndlr performInfoTable   *)
(* works on, in an entry with BootInfoTable set.                           *)
(***************************************************************************)
\* the longest tail a boot file has after its first 64 bytes
MaxTail == 6

\* the tails: bytes 1 and 255
RECURSIVE TailsOf(_)
TailsOf(n) ==
    IF n = 0 THEN { <<>> }
    ELSE LET T == TailsOf(n - 1)
         IN  T \cup { Append(t, b) : t \in {u \in T : Len(u) = n - 1}, b \in {1, 255} }

\* the boot files: bytes 1..64, then a tail; and two files that end before
\* offset 64
BootFiles ==
    { [i \in 1..64 |-> i] \o t : t \in TailsOf(MaxTail) }
        \cup { [i \in 1..n |-> i] : n \in {10, 40} }

\* the readers a caller can hand over: an open file, a path-backed Item of
\* NewItemFile, a *bytes.Reader, any other io.Reader
ReaderKinds == {"file", "path", "bytes", "generic"}

\* the files of the sources that are staged as they are given: 10, 40, 64
\* and 70 bytes
PlainFiles == { [i \in 1..n |-> i] : n \in {10, 40, 64, 70} }

\* the two local files an Item of NewItemConcat is made of, five bytes each
ConcatParts == << [i \in 1..5 |-> i], [i \in 1..5 |-> 5 + i] >>

\* the calls of Close looked at on one source
MaxCloses == 3

\* the LBAs planning gives the boot file
UnitSectors == {20, 300}

\* NewItemReader(r), by the type of r
handlerOf(from) ==
    CASE from = "file"  -> "fileHndlr"
      [] from = "path"  -> "filepathHndlr"
      [] OTHER          -> "readerHndlr"

\* the filepathHndlr NewItemFile gives for a local file with the bytes d
PathSource(d) ==
    [NoSource EXCEPT !.kind = "filepathHndlr", !.from = "path", !.d = d,
                     !.orig = d, !.last = "staged", !.stage = "staged"]

\* NewItemConcat(items...): the items as they are, pos 0 (kept in pos)
NewItemConcat(its) ==
    [NoSource EXCEPT !.kind = "itemConcat", !.from = "concat",
                     !.d = its[1].d \o its[2].d,
                     !.orig = its[1].d \o its[2].d,
                     !.items = its, !.last = "staged", !.stage = "staged"]

\* AddBootEntry with the source as data: the Item NewItemReader gives is put
\* in the tree and in the boot entry, which has no BootInfoTable
StageSource(from, d) ==
    /\ hndlr.stage = "none"
    /\ hndlr' = [NoSource EXCEPT !.kind = handlerOf(from),
                                 !.from = from, !.d = d, !.orig = d,
                                 !.last = "staged", !.stage = "staged"]

\* AddBootEntry with an Item of NewItemConcat over two path-backed Items
StageConcat ==
    /\ hndlr.stage = "none"
    /\ hndlr' = NewItemConcat(<<PathSource(ConcatParts[1]),
                                PathSource(ConcatParts[2])>>)

\* bufferizeItem(r) on a reader that delivers d, and a boot entry with
\* BootInfoTable set for the bufferHndlr it returns
BufferizeSource(from, d) ==
    /\ hndlr.stage = "none"
    /\ hndlr' = [NoSource EXCEPT !.kind = "bufferHndlr",
                                 !.from = from, !.d = d, !.orig = d,
                                 !.BootInfoTable = TRUE, !.last = "staged",
                                 !.stage = "staged"]

\* processDirectory sets the file's targetSector
PlanSource(lba) ==
    /\ hndlr.stage = "staged"
    /\ hndlr' = [hndlr EXCEPT !.targetSector = lba, !.stage = "planned"]

\* a uint32 as its two 16-bit halves
Word32(b, i) == [lo |-> b[i + 1] + 256 * b[i + 2], hi |-> b[i + 3] + 256 * b[i + 4]]

Add32(a, b) ==
    [lo |-> (a.lo + b.lo) % 65536,
     hi |-> (a.hi + b.hi + (a.lo + b.lo) \div 65536) % 65536]

PutWord32(w) == PutUint16(w.lo) \o PutUint16(w.hi)

\* the loop of doElToritoTableChecksum: whole words while i < len(in) - 4
RECURSIVE tableSumFrom(_, _, _)
tableSumFrom(in, i, r) ==
    IF i < Len(in) - 4
    THEN LET r1 == Add32(r, Word32(in, i))
         IN  IF r1.lo >= 0 THEN tableSumFrom(in, i + 4, r1) ELSE [r |-> r1, i |-> i]
    ELSE [r |-> r, i |-> i]

\* a checksum that leaves out what the loop has not taken
doElToritoTableChecksumLoopOnly(in) == tableSumFrom(in, 0, [lo |-> 0, hi |-> 0]).r

\* doElToritoTableChecksum: the rest, at most four bytes, is copied into a
\* buffer of four zero bytes and added
doElToritoTableChecksum(in) ==
    LET a   == tableSumFrom(in, 0, [lo |-> 0, hi |-> 0])
        buf == [k \in 1..4 |-> IF a.i + k <= Len(in) THEN in[a.i + k] ELSE 0]
    IN  IF a.i # Len(in) THEN Add32(a.r, Word32(buf, 0)) ELSE a.r

\* performInfoTable on the bytes d of a bufferHndlr, the statements in
\* their order: three fields are put (a buffer of bufferizeItem has the
\* capacity for them, the bytes past the length of d are not of the file),
\* then f.d[64:] is taken, which panics for a file that ends before offset
\* 64, then the checksum is put
performInfoTable(d, targetSector) ==
    LET head == [i \in 1..Len(d) |->
                    IF i \in 9..12 THEN PutUint32(16)[i - 8]
                    ELSE IF i \in 13..16 THEN PutUint32(targetSector)[i - 12]
                    ELSE IF i \in 17..20 THEN PutUint32(Len(d))[i - 16]
                    ELSE d[i]]
    IN  IF Len(d) < 64 THEN [d |-> head, panic |-> TRUE]
        ELSE LET sum == PutWord32(doElToritoTableChecksum(SubSeq(head, 65, Len(d))))
             IN  [d |-> [i \in 1..Len(d) |-> IF i \in 21..24 THEN sum[i - 20] ELSE head[i]],
                  panic |-> FALSE]

\* encodeBootCatalogs at the entry of the file: b.file.(*bufferHndlr) panics
\* for a handler of another type
EncodeSource ==
    /\ hndlr.stage = "planned"
    /\ hndlr' =
         IF ~hndlr.BootInfoTable THEN [hndlr EXCEPT !.stage = "encoded"]
         ELSE IF hndlr.kind # "bufferHndlr"
         THEN [hndlr EXCEPT !.stage = "panic", !.err = "interface conversion"]
         ELSE LET p == performInfoTable(hndlr.d, hndlr.targetSector)
              IN  IF p.panic
                  THEN [hndlr EXCEPT !.d = p.d, !.stage = "panic",
                                     !.err = "slice bounds out of range"]
                  ELSE [hndlr EXCEPT !.d = p.d, !.stage = "encoded"]

\* whether the handler is of a type that takes and gives back what it reads
\* from: the file of a filepathHndlr, the reader of a bufferHndlr
Holds(h) == h.kind \in {"filepathHndlr", "bufferHndlr"}

\* Read of up to n bytes.  A filepathHndlr that has no file opens it (ok:
\* whether os.Open succeeds) and returns the error of a failed open with
\* nothing read and no file kept; a bufferHndlr makes its reader when it has
\* none.  With nothing left Read returns io.EOF.
readSource(h, n, ok) ==
    LET opening == h.kind = "filepathHndlr" /\ ~h.held
        start   == IF Holds(h) /\ ~h.held THEN 0 ELSE h.pos
    IN  IF opening /\ ~ok
        THEN [h EXCEPT !.last = "read", !.err = "open"]
        ELSE [h EXCEPT !.pos = Min2(start + n, Len(h.d)),
                       !.held = Holds(h),
                       !.opens = IF opening THEN @ + 1 ELSE @,
                       !.last = "read",
                       !.err = IF start >= Len(h.d) THEN "EOF" ELSE "nil"]

\* Close: a filepathHndlr closes the file it has (osErr: the system reports
\* an error), forgets it and returns what closing returned; a bufferHndlr
\* forgets its reader; the others do nothing
closeSource(h, osErr) ==
    LET has == h.kind = "filepathHndlr" /\ h.held
    IN  [h EXCEPT !.held = FALSE,
                  !.released = IF has THEN @ + 1 ELSE @,
                  !.closes = @ + 1,
                  !.last = "close",
                  !.err = IF has /\ osErr THEN "error" ELSE "nil"]

\* itemConcat.Read: the item at pos is read; at its io.EOF pos moves on and
\* the next item is read; past the last item Read returns io.EOF.  bad is
\* the item whose file cannot be opened, 0 for none.
RECURSIVE readConcat(_, _, _)
readConcat(h, n, bad) ==
    IF h.pos >= Len(h.items) THEN [h EXCEPT !.last = "read", !.err = "EOF"]
    ELSE LET k  == h.pos + 1
             c1 == readSource(h.items[k], n, k # bad)
         IN  IF c1.err = "EOF"
             THEN readConcat([h EXCEPT !.items[k] = c1, !.pos = @ + 1], n, bad)
             ELSE [h EXCEPT !.items[k] = c1, !.last = "read", !.err = c1.err]

\* the loop of itemConcat.Close from item k on: it returns at the first
\* item whose Close returns an error.  bad is the item for which the system
\* reports an error when its file is closed, 0 for none.
RECURSIVE closeItems(_, _, _)
closeItems(its, k, bad) ==
    IF k > Len(its) THEN [items |-> its, err |-> "nil"]
    ELSE LET c1 == closeSource(its[k], k = bad)
         IN  IF c1.err # "nil"
             THEN [items |-> [its EXCEPT ![k] = c1], err |-> c1.err]
             ELSE closeItems([its EXCEPT ![k] = c1], k + 1, bad)

\* itemConcat.Close
closeConcat(h, bad) ==
    LET r == closeItems(h.items, 1, bad)
    IN  [h EXCEPT !.items = r.items, !.closes = @ + 1, !.last = "close",
                  !.err = r.err]

\* m Reads of io.Copy on an itemConcat, fewer when one returns an error;
\* the buffer of io.Copy takes all that an item of the files here has left
RECURSIVE readTimes(_, _, _)
readTimes(h, m, bad) ==
    IF m = 0 THEN h
    ELSE LET h1 == readConcat(h, Len(h.d), bad)
         IN  IF h1.err # "nil" THEN h1 ELSE readTimes(h1, m - 1, bad)

\* the Reads of io.Copy on an itemConcat up to the first error, io.EOF when
\* all goes well: at most one with bytes for each item and one more
readAll(h, bad) == readTimes(h, Len(h.items) + 1, bad)

\* the source with the mark of a Read the caller made after WriteTo has
\* returned
touchedAfter(h) ==
    [h EXCEPT !.touched = @ \/ h.stage \in {"emitted", "failed"}]

\* the caller reads from the source, before WriteTo or after it
ReadSource(n) ==
    /\ hndlr.stage \in {"staged", "planned", "encoded", "emitted", "failed"}
    /\ IF hndlr.kind = "itemConcat"
       THEN \E bad \in 0..Len(hndlr.items) :
              hndlr' = touchedAfter(readConcat(hndlr, n, bad))
       ELSE \E ok \in BOOLEAN :
              hndlr' = touchedAfter(readSource(hndlr, n, ok))

\* the caller closes the source
CloseSource ==
    /\ hndlr.stage \in {"staged", "planned", "encoded", "emitted", "failed"}
    /\ hndlr.closes < MaxCloses
    /\ IF hndlr.kind = "itemConcat"
       THEN \E bad \in 0..Len(hndlr.items) : hndlr' = closeConcat(hndlr, bad)
       ELSE \E osErr \in BOOLEAN : hndlr' = closeSource(hndlr, osErr)

\* WriteTo's loop on the source: io.Copy reads it to its end, then
\* buf.Close(), whose error WriteTo does not look at
EmitSource ==
    /\ hndlr.stage = "encoded"
    /\ hndlr.closes < MaxCloses
    /\ IF hndlr.kind = "itemConcat"
       THEN \E bad \in 0..Len(hndlr.items) :
              hndlr' = [closeConcat(readAll(hndlr, 0), bad)
                           EXCEPT !.stage = "emitted"]
       ELSE \E osErr \in BOOLEAN :
              hndlr' = [closeSource(readSource(hndlr, Len(hndlr.d), TRUE), osErr)
                           EXCEPT !.stage = "emitted"]

\* the counts a failing Write of the sink may report for the rem bytes it
\* was handed: none, one, or all of them
SinkTakes(rem) == {0, 1, rem}

\* the source after an io.Copy the sink has ended with an error: a
\* readerHndlr hands its unread bytes to Write (bytes.Reader.WriteTo) and
\* moves on by the count Write reports; any other handler is read through
\* Read into io.Copy's buffer, to its end for the files here
copyFailed(h, taken) ==
    IF h.kind = "readerHndlr"
    THEN [h EXCEPT !.pos = @ + taken, !.last = "read", !.err = "io"]
    ELSE [readSource(h, Len(h.d), TRUE) EXCEPT !.err = "io"]

\* where the next Read of the source starts
readStart(h) == IF Holds(h) /\ ~h.held THEN 0 ELSE h.pos

\* WriteTo's loop on the source when io.Copy returns an error: the sink
\* returns one for what it is handed, or a file cannot be opened;
\* writeSectorBuf returns the error and WriteTo returns it before
\* buf.Close().  For an itemConcat the sink fails at the m-th Write.
EmitSourceFails ==
    /\ hndlr.stage = "encoded"
    /\ IF hndlr.kind = "itemConcat"
       THEN \/ \E m \in 1..Len(hndlr.items) :
                 /\ readTimes(hndlr, m, 0).err = "nil"
                 /\ hndlr' = [readTimes(hndlr, m, 0) EXCEPT !.err = "io",
                                                            !.stage = "failed"]
            \/ \E bad \in 1..Len(hndlr.items) :
                 /\ readAll(hndlr, bad).err = "open"
                 /\ hndlr' = [readAll(hndlr, bad) EXCEPT !.stage = "failed"]
       ELSE \/ /\ readStart(hndlr) < Len(hndlr.d)
               /\ \E taken \in SinkTakes(Len(hndlr.d) - hndlr.pos) :
                     hndlr' = [copyFailed(hndlr, taken) EXCEPT !.stage = "failed"]
            \/ /\ hndlr.kind = "filepathHndlr"
               /\ ~hndlr.held
               /\ hndlr' = [readSource(hndlr, Len(hndlr.d), FALSE)
                               EXCEPT !.stage = "failed"]

InitSource == Init /\ caller = "small"

NextSource ==
    /\ \/ \E from \in ReaderKinds : \E d \in PlainFiles : StageSource(from, d)
       \/ StageConcat
       \/ \E from \in ReaderKinds : \E d \in BootFiles : BufferizeSource(from, d)
       \/ \E lba \in UnitSectors : PlanSource(lba)
       \/ EncodeSource
       \/ ReadSource(64)
       \/ CloseSource
       \/ EmitSource
       \/ EmitSourceFails
    /\ UNCHANGED <<caller, calls, faults, dirs, item, boot, lookupTable, ret,
                   pc, vd, VolumeSpaceSize, freeSectorPointer, itemsToWrite,
                   items, writeSecPos, idx, Catalog, BootSystemUse, bootCat,
                   closeLog, sink, allocLog, writeLog>>

SpecSource == InitSource /\ [][NextSource]_vars

(***************************************************************************)
(* The boot-information table, the buffering of its file, and the handle   *)
(* of a path-backed source.                                                *)
(***************************************************************************)
\* the sum of the bytes of b from position i on, every fourth one
RECURSIVE LaneSum(_, _)
LaneSum(b, i) == IF i > Len(b) THEN 0 ELSE b[i] + LaneSum(b, i + 4)

\* byte k (0..3) of the sum modulo 2^32 of the little-endian words of b from
\* offset 64 on, the last word filled up with zeros: the byte lanes added
\* apart, the carries passed upwards
RECURSIVE LaneCarry(_, _)
LaneCarry(b, k) ==
    IF k = 0 THEN 0 ELSE (LaneSum(b, 64 + k) + LaneCarry(b, k - 1)) \div 256

TableSumByte(b, k) == (LaneSum(b, 65 + k) + LaneCarry(b, k)) % 256

\* the little-endian uint32 at offset off of b is v (v below 2^31)
HoldsLE32(b, off, v) ==
    /\ b[off + 1] + 256 * b[off + 2] = v % 65536
    /\ b[off + 3] + 256 * b[off + 4] = v \div 65536

\* C23: for a boot entry with BootInfoTable set, after planning and before
\* emission the buffer of the boot file has 16 at bytes 8..12, the LBA of
\* the file at 12..16, its size at 16..20, at 20..24 the sum modulo 2^32 of
\* its little-endian 32-bit words from offset 64 on (a last partial word
\* filled with zeros), and every other byte as it was staged.
C23_BootInfoTable ==
    (hndlr.stage = "encoded" /\ hndlr.BootInfoTable) =>
        /\ Len(hndlr.d) = Len(hndlr.orig)
        /\ HoldsLE32(hndlr.d, 8, 16)
        /\ HoldsLE32(hndlr.d, 12, hndlr.targetSector)
        /\ HoldsLE32(hndlr.d, 16, Len(hndlr.orig))
        /\ \A k \in 0..3 : hndlr.d[21 + k] = TableSumByte(hndlr.orig, k)
        /\ \A i \in 1..Len(hndlr.orig) :
              i \notin 9..24 => hndlr.d[i] = hndlr.orig[i]

\* a file whose tail is one whole word and a partial one, with carries
C23_Witness ==
    /\ hndlr.stage = "encoded"
    /\ hndlr.BootInfoTable
    /\ hndlr.targetSector = 300
    /\ SubSeq(hndlr.orig, 65, Len(hndlr.orig)) = <<255, 255, 255, 255, 255, 1>>
    /\ SubSeq(hndlr.d, 21, 24) = <<254, 1, 0, 0>>

\* the path-backed sources of a staged Item: the Item itself when it is a
\* filepathHndlr, the items of an itemConcat
PathBacked(h) ==
    IF h.kind = "filepathHndlr" THEN <<h>>
    ELSE IF h.kind = "itemConcat" THEN h.items
    ELSE <<>>

\* a path-backed source holds no file from staging to its first read and
\* holds one only between a read and the close after it; a Close of a
\* source that holds none changes nothing and returns no error
HeldBetweenReadAndClose ==
    [][\A k \in 1..Len(PathBacked(hndlr')) :
          LET c0 == PathBacked(hndlr)[k]
              c1 == PathBacked(hndlr')[k]
          IN  /\ c1.held => c1.last = "read"
              /\ c1.opens - c1.released = (IF c1.held THEN 1 ELSE 0)
              /\ (/\ hndlr.stage = hndlr'.stage
                  /\ hndlr.stage # "none"
                  /\ ~c0.held
                  /\ c1.closes = c0.closes + 1) =>
                    c1 = [c0 EXCEPT !.closes = @ + 1, !.last = "close",
                                    !.err = "nil"]
      ]_vars

\* after the emission of a source for which WriteTo went on, and before
\* the caller reads from it again, no path-backed source of it holds a file
NoneHeldAfterEmission ==
    (hndlr.stage = "emitted" /\ ~hndlr.touched) =>
        \A k \in 1..Len(PathBacked(hndlr)) : ~PathBacked(hndlr)[k].held

\* C28: a path-backed source holds no file from staging to its first read,
\* holds one only between a read and the close after it, a Close of a
\* source that holds none changes nothing and returns no error, and after
\* an emission that went well no path-backed source of the tree holds one.
C28_PathBackedHandle ==
    [][\A k \in 1..Len(PathBacked(hndlr')) :
          LET c0 == PathBacked(hndlr)[k]
              c1 == PathBacked(hndlr')[k]
          IN  /\ c1.held => c1.last = "read"
              /\ c1.opens - c1.released = (IF c1.held THEN 1 ELSE 0)
              /\ (/\ hndlr.stage = hndlr'.stage
                  /\ hndlr.stage # "none"
                  /\ ~c0.held
                  /\ c1.closes = c0.closes + 1) =>
                    c1 = [c0 EXCEPT !.closes = @ + 1, !.last = "close",
                                    !.err = "nil"]
              /\ (hndlr'.stage = "emitted" /\ ~hndlr'.touched) => ~c1.held
      ]_vars

\* a path-backed source staged on its own, read and closed, closed once
\* more with no file held, and emitted
PathSourceEmitted ==
    /\ hndlr.kind = "filepathHndlr"
    /\ hndlr.stage = "emitted"
    /\ hndlr.closes = 3
    /\ hndlr.opens = 2
    /\ hndlr.released = 2
    /\ ~hndlr.touched
    /\ ~hndlr.held

\* an itemConcat emitted, the Close of its first item having returned an
\* error: the file of the second item is open
ConcatItemLeftOpen ==
    /\ hndlr.kind = "itemConcat"
    /\ hndlr.stage = "emitted"
    /\ hndlr.err = "error"
    /\ ~hndlr.touched
    /\ ~hndlr.items[1].held
    /\ hndlr.items[2].held

\* a path-backed source the caller has read from after its emission: the
\* file was opened anew
ReopenedAfterEmission ==
    /\ hndlr.kind = "filepathHndlr"
    /\ hndlr.stage = "emitted"
    /\ hndlr.touched
    /\ hndlr.held
    /\ hndlr.opens = 2

\* a path-backed source whose file could not be opened holds none
OpenFailed ==
    /\ hndlr.kind = "filepathHndlr"
    /\ hndlr.err = "open"
    /\ hndlr.stage = "failed"
    /\ ~hndlr.held

(***************************************************************************)
(* The order of planning.                                                  *)
(***************************************************************************)
\* the pairs of sibling directories, the first sorting before the second
SiblingPairs ==
    { pr \in (DOMAIN dirs) \X (DOMAIN dirs) :
        /\ Len(pr[1]) >= 1
        /\ Len(pr[1]) = Len(pr[2])
        /\ SubSeq(pr[1], 1, Len(pr[1]) - 1) = SubSeq(pr[2], 1, Len(pr[2]) - 1)
        /\ StrLess(pr[1][Len(pr[1])], pr[2][Len(pr[2])]) }

\* the places of the tree right in directory d: its children, each named by
\* its directory and its name
PlacesIn(d) == { <<d, nm>> : nm \in DOMAIN dirs[d].children }

\* the places below d: its children, grandchildren and so on
PlacesBelow(d) ==
    UNION { PlacesIn(e) : e \in { x \in DOMAIN dirs :
                                     /\ Len(x) >= Len(d)
                                     /\ SubSeq(x, 1, Len(d)) = d } }

\* the allocation made for the child at a place: the entry of allocLog with
\* the child's node and the extent location of the child's record
AllocIdx(pl) ==
    LET recs == dirs[pl[1]].buf.recs
    IN  { j \in 1..Len(allocLog) :
            /\ allocLog[j].node = dirs[pl[1]].children[pl[2]]
            /\ \E r \in 3..Len(recs) :
                  /\ recs[r].de.Identifier = pl[2]
                  /\ recs[r].de.ExtentLocation = allocLog[j].lba }

\* every allocation for a place of A comes before every one for a place of B
AllocatedBefore(A, B) ==
    LET before == UNION { AllocIdx(p1) : p1 \in A }
        after  == UNION { AllocIdx(p2) : p2 \in B }
    IN  \A j \in before : \A k \in after : j < k

\* C31 as stated: planning is depth-first: for sibling directories d1 and d2
\* with d1 sorting before d2, everything below d1 is allocated before
\* everything below d2.
C31_DepthFirst ==
    \A pr \in SiblingPairs :
        AllocatedBefore(PlacesBelow(pr[1]), PlacesBelow(pr[2]))

\* C31 amended: planning is breadth-first: for sibling directories d1 and d2
\* with d1 sorting before d2, every child of d1 is allocated before every
\* child of d2, what lies deeper below d1 is allocated after the children of
\* d2, and the emission list has the allocated items in that order.
C31_BreadthFirst ==
    /\ \A pr \in SiblingPairs :
          /\ AllocatedBefore(PlacesIn(pr[1]), PlacesIn(pr[2]))
          /\ AllocatedBefore(PlacesIn(pr[2]),
                             PlacesBelow(pr[1]) \ PlacesIn(pr[1]))
    /\ \A k \in 1..Len(items) : items[k] = allocLog[k].node

\* two sibling directories, a grandchild below the first allocated after a
\* child of the second, all emitted
C31_Witness ==
    /\ pc = "done"
    /\ \E pr \in SiblingPairs :
         \E p1 \in PlacesBelow(pr[1]) \ PlacesIn(pr[1]) :
         \E p2 \in PlacesIn(pr[2]) :
            /\ AllocIdx(p1) # {}
            /\ AllocIdx(p2) # {}
            /\ \A j \in AllocIdx(p1) : \A k \in AllocIdx(p2) : k < j
    /\ \E pr \in SiblingPairs :
            PlacesIn(pr[1]) # {} /\ AllocatedBefore(PlacesIn(pr[1]), PlacesIn(pr[2]))

\* the times node n was allocated (each allocation sets its metadata: own
\* record, parent record, LBA) and the times it stands in the emission list
TimesAllocated(n) == Cardinality({j \in 1..Len(allocLog) : allocLog[j].node = n})

TimesListed(n) == Cardinality({k \in 1..Len(items) : items[k] = n})

\* C32: in one planning pass every directory and every Content Source of
\* the tree has its metadata written once and stands once in the emission
\* list, also when the caller staged one Item under two paths.
C32_PlannedOnce ==
    \A n \in TreeNodes :
        /\ TimesAllocated(n) <= 1
        /\ TimesListed(n) <= 1
        /\ Emitting => TimesAllocated(n) = 1 /\ TimesListed(n) = 1

(***************************************************************************)
(* writeSector on its own: a caller hands it buffers of several lengths    *)
(* and declared sectors that are or are not the position of the stream.    *)
(***************************************************************************)
\* the calls of writeSector looked at in a row
MaxWrites == 4

\* the lengths of the buffers: none, one byte, a sector less one byte, one
\* sector, a sector and one byte, two sectors
BufferLengths == { SzOf(0), SzOf(1), SzOf(sectorSize - 1), SzOf(sectorSize),
                   SzOf(sectorSize + 1), SzOf(2 * sectorSize) }

\* the sectors the caller declares
DeclaredSectors == 0..(2 * MaxWrites + 1)

\* wc.writeSector(buffer, sector) with a buffer of n bytes; the sink may
\* refuse the buffer or the padding
WriteSectorCall(n, sector) ==
    /\ pc = "idle"
    /\ calls < MaxWrites
    /\ \E ok \in WriteOutcomes :
       \E okPad \in (IF ok /\ n.r # 0 THEN WriteOutcomes ELSE {TRUE}) :
         LET r == writeSector(n, sector, ok, okPad)
         IN  /\ sink' = r.sink
             /\ writeSecPos' = r.writeSecPos
             /\ ret' = r.err
             /\ faults' = IF sector # writeSecPos THEN faults
                          ELSE faults + (IF ok THEN 0 ELSE 1)
                                      + (IF okPad THEN 0 ELSE 1)
    /\ calls' = calls + 1
    /\ UNCHANGED <<caller, dirs, item, boot, lookupTable, pc, vd,
                   VolumeSpaceSize, freeSectorPointer, itemsToWrite, items,
                   idx, Catalog, BootSystemUse, bootCat, closeLog, hndlr,
                   allocLog, writeLog>>

InitWriteSector == Init /\ caller = "small"

NextWriteSector ==
    \E n \in BufferLengths : \E sector \in DeclaredSectors :
        WriteSectorCall(n, sector)

SpecWriteSector == InitWriteSector /\ [][NextWriteSector]_vars

\* a count of bytes [q, r] as a number
BytesOf(n) == n.q * sectorSize + n.r

\* C33: writeSector with a declared sector that is not writeSecPos fails
\* with invalid write, hands nothing to the sink and leaves writeSecPos as
\* it is; with the declared sector equal to writeSecPos the sink gets the
\* buffer and zeros up to the next multiple of 2048 bytes, and writeSecPos
\* grows by the length of the buffer divided by 2048, rounded up.
C33_WriteSector ==
    [][\A n \in BufferLengths : \A sector \in DeclaredSectors :
         WriteSectorCall(n, sector) =>
            IF sector # writeSecPos
            THEN /\ ret' = "invalid write"
                 /\ sink' = sink
                 /\ writeSecPos' = writeSecPos
            ELSE ret' = "nil" =>
                 /\ BytesOf(sink') = BytesOf(sink) + BytesOf(n)
                        + ((sectorSize - (BytesOf(n) % sectorSize)) % sectorSize)
                 /\ writeSecPos' = writeSecPos
                        + ((BytesOf(n) + sectorSize - 1) \div sectorSize)
      ]_vars

\* the same with a sink that takes every write
C33_WriteSectorSinkTakesAll ==
    [][\A n \in BufferLengths : \A sector \in DeclaredSectors :
         (WriteSectorCall(n, sector) /\ faults' = faults) =>
            IF sector # writeSecPos
            THEN /\ ret' = "invalid write"
                 /\ sink' = sink
                 /\ writeSecPos' = writeSecPos
            ELSE /\ ret' = "nil"
                 /\ BytesOf(sink') = BytesOf(sink) + BytesOf(n)
                        + ((sectorSize - (BytesOf(n) % sectorSize)) % sectorSize)
                 /\ writeSecPos' = writeSecPos
                        + ((BytesOf(n) + sectorSize - 1) \div sectorSize)
      ]_vars

(***************************************************************************)
(* The size of the image.                                                  *)
(***************************************************************************)
\* C34: after a successful WriteTo the sink has taken VolumeSpaceSize times
\* 2048 bytes, VolumeSpaceSize being the value in the primary descriptor.
C34_SinkIsVolumeSpace ==
    pc = "done" => sink = [q |-> VolumeSpaceSize, r |-> 0]

\* no file is in the tree at two places
NoItemTwice ==
    \A n \in TreeNodes : TimesListed(n) <= 1

\* the same for a sink that took every write and a tree without a file at
\* two places
C34_SinkIsVolumeSpaceNoFault ==
    (pc = "done" /\ faults = 0 /\ NoItemTwice) =>
        sink = [q |-> VolumeSpaceSize, r |-> 0]

(***************************************************************************)
(* The staging calls on their own, a reader that fails among the readers.  *)
(***************************************************************************)
NextStaging ==
    \/ \E o \in SmallObjects \cup FailingReaders : \E filePath \in SmallPaths :
         AddFile(o, filePath)
    \/ \E platformId \in BootPlatforms : \E filePath \in SmallPaths :
       \E o \in SmallObjects :
         AddBootEntry(platformId, 0, filePath, o)

InitStaging == Init /\ caller = "small"

SpecStaging == InitStaging /\ [][NextStaging]_vars

\* C35: a staging call that returns an error leaves the tree, the lookup
\* table and the boot list as they were; no directory made while the path
\* was resolved is left behind.
C35_FailedCallChangesNothing ==
    [][(calls' = calls + 1 /\ ret' # "nil") =>
          /\ dirs' = dirs
          /\ lookupTable' = lookupTable
          /\ boot' = boot
      ]_vars

\* the same for the calls that fail with ErrExist
C35_DuplicateChangesNothing ==
    [][(calls' = calls + 1 /\ ret' = "ErrExist") =>
          /\ dirs' = dirs
          /\ lookupTable' = lookupTable
          /\ boot' = boot
          /\ item' = item
      ]_vars

(***************************************************************************)
(* A planning that fails.                                                  *)
(***************************************************************************)
\* C36: when planning fails, WriteTo returns the error and has handed no
\* byte to the sink, has read from no staged Content Source and has closed
\* none.
C36_PlanningFailureWritesNothing ==
    ret = TooLargeInPlanning =>
        /\ pc = "error"
        /\ sink = SzOf(0)
        /\ writeLog = <<>>
        /\ writeSecPos = 0
        /\ closeLog = <<>>
        /\ \A o \in DOMAIN item :
              item[o].left = item[o].size /\ item[o].closed = 0
        /\ \A d \in DOMAIN dirs : dirs[d].buf.rd = 0

\* planning has failed on a file after planning other items, a source with
\* bytes among them
C36_Witness ==
    /\ pc = "error"
    /\ ret = TooLargeInPlanning
    /\ Len(allocLog) >= 3
    /\ \E o \in DOMAIN item :
          item[o].size = SzOf(2049) /\ item[o].m.targetSector > 0

\* C37: when WriteTo has returned, with success or with an error from a
\* read of a source or a write to the sink, no file a path-backed source
\* opened during the emission is open.
C37_NoHandleLeftOpen ==
    (/\ hndlr.kind = "filepathHndlr"
     /\ hndlr.stage \in {"emitted", "failed"}
     /\ ~hndlr.touched) =>
        ~hndlr.held

\* the same when WriteTo has returned nil
C37_NoHandleLeftOpenOnSuccess ==
    (hndlr.kind = "filepathHndlr" /\ hndlr.stage = "emitted" /\ ~hndlr.touched)
        => ~hndlr.held

(***************************************************************************)
(* The names of the tree: staging calls with paths whose components look   *)
(* like stored names.                                                      *)
(***************************************************************************)
NextNames ==
    \/ \E o \in SmallObjects : \E filePath \in NamePaths : AddFile(o, filePath)
    \/ \E platformId \in BootPlatforms : \E filePath \in NamePaths :
       \E o \in SmallObjects :
         AddBootEntry(platformId, 0, filePath, o)

InitNames == Init /\ caller = "small"

SpecNames == InitNames /\ [][NextNames]_vars

\* the names of the children of d that are directories, and of those that
\* are files
DirNames(d)  == { nm \in DOMAIN dirs[d].children : dirs[d].children[nm].dir }

FileNames(d) == { nm \in DOMAIN dirs[d].children : ~dirs[d].children[nm].dir }

\* C38: every file name in the tree ends in ";1" and every directory name
\* has d-characters only, so no name of a directory is the name a file can
\* have, and no staging call returns ErrIsDir.
C38_NamesNeverClash ==
    /\ \A d \in DOMAIN dirs :
          /\ \A nm \in FileNames(d) :
                /\ Len(nm) >= 2
                /\ nm[Len(nm) - 1] = 59
                /\ nm[Len(nm)] = 49
          /\ \A nm \in DirNames(d) : \A k \in 1..Len(nm) : IsDChar(nm[k])
          /\ \A nm \in DirNames(d) : \A fp \in SmallPaths \cup NamePaths :
                manglePath(fp).name # nm
    /\ ret # "ErrIsDir"

\* one directory holds the file A;1, the directory A_1 made for the
\* component "a;1", and the file A_1;1
C38_Witness ==
    /\ << <<80>> >> \in DOMAIN dirs
    /\ {<<65, 59, 49>>, <<65, 95, 49, 59, 49>>} \subseteq FileNames(<< <<80>> >>)
    /\ <<65, 95, 49>> \in DirNames(<< <<80>> >>)
    /\ ret = "nil"

====
